---- MODULE Spec2Model ----
(***************************************************************************)
(* Model of the evo_sim simulation core (src/evo_sim): the LiveSim day     *)
(* loop (sim/live.py), the per-tick decide / apply / interact phases       *)
(* (sim/engine.py, sim/behaviors.py), end-of-day selection, reproduction   *)
(* with speciation (sim/genetics.py) and the lineage tracker               *)
(* (sim/lineage.py).                                                       *)
(*                                                                         *)
(* Arithmetic.  The program computes in floating point; the model computes *)
(* in fixed point on integers, in these units:                             *)
(*   positions            whole cells of the arena                         *)
(*   distances, radii     hundredths of a cell (suffix 100)                *)
(*   speed                tenths of a cell per time unit                   *)
(*   velocity             whole cells per time unit (components truncated  *)
(*                        toward zero, so a magnitude never grows)         *)
(*   size                 fifths (5 is size 1.0, 6 is size 1.2)            *)
(*   sense                cells                                            *)
(*   aggression, bravery, metabolism   twentieths (20 is 1.0)              *)
(*   injury_speed_mult    tenths (10 is 1.0)                               *)
(*   energy               1 / 25,000,000 of the program's energy unit, so  *)
(*                        that the cost of a tick is an integer            *)
(* Every draw of the random generator is a nondeterministic choice from a  *)
(* small set of the values the draw can return; once the generator has     *)
(* been seeded (rng.seed # 0) a draw is the function Draw of the seed and  *)
(* the number of draws made so far.                                        *)
(***************************************************************************)
EXTENDS Integers, Sequences, FiniteSets, TLC

(***************************************************************************)
(* Bounds of the model (not program constants).                            *)
(***************************************************************************)
MaxPop == 3
MaxDay == 2

(***************************************************************************)
(* Program constants (sim/config.py), scaled to the small arena.           *)
(***************************************************************************)
InitPop == 2
Width == 4
Height == 4
DaySteps == 3
Dt == 1
NFood == 1
HomeMargin100 == 100
BiteScale100 == 70
BaseEnergy == 2000000
CSize == 35
CSense == 42
CMove == 65
SenseFoodScale100 == 125
SensePredScale100 == 150
SensePreyScale100 == 100
WanderSpeedPct == 85
ReturnEnergyMarginPct == 120
SpeciationThresholdPct == 40
MinMetabolism == 16
MaxMetabolism == 24
BasePKill == 350
SizeWeight == 600
SpeedWeight == 250
MinPKill == 50
MaxPKill == 980
InjuryDaysMin == 1
InjuryDaysMax == 2
InjurySpeedMultLo == 6
InjurySpeedMultHi == 9
EnergyLossOnFail == 400000
InjuryEnergyLeak == 75000
AvoidRadiusMultPct == 160
AvoidMinCount == 2
HungryStreakForBravery == 1
HungryPKillBonus == 100
HungryPreyRadiusMultPct == 115
HungryMinScore == 50
BaseMinScore == 200
CenterRingRadius == 1
ReseedCount == 2

(***************************************************************************)
(* Fixed-point helpers.                                                    *)
(***************************************************************************)
Abs(a) == IF a < 0 THEN -a ELSE a

Min(a, b) == IF a <= b THEN a ELSE b

Max(a, b) == IF a >= b THEN a ELSE b

\* integer division truncating toward zero (b > 0)
Trunc(a, b) == IF a >= 0 THEN a \div b ELSE -((-a) \div b)

RECURSIVE SqrtSearch(_, _, _)
SqrtSearch(n, lo, hi) ==
  IF lo >= hi THEN lo
  ELSE LET mid == (lo + hi + 1) \div 2
       IN IF mid * mid <= n THEN SqrtSearch(n, mid, hi) ELSE SqrtSearch(n, lo, mid - 1)

\* floor of the square root
ISqrt(n) == SqrtSearch(n, 0, Min(n, 40000))

\* ceiling of the square root
CSqrt(n) == LET r == ISqrt(n) IN IF r * r = n THEN r ELSE r + 1

Dist2(ax, ay, bx, by) == (ax - bx) * (ax - bx) + (ay - by) * (ay - by)

\* math.hypot in hundredths of a cell
Hypot100(dx, dy) == ISqrt(10000 * (dx * dx + dy * dy))

(***************************************************************************)
(* behaviors.py: vector helpers.  A unit vector is held in hundredths,     *)
(* rounded toward zero; mul scales it by a speed in tenths of a cell and   *)
(* gives whole cells per time unit.                                        *)
(***************************************************************************)
unit(dx, dy) ==
  LET n == CSqrt(10000 * (dx * dx + dy * dy))
  IN IF n = 0 THEN <<0, 0>>
     ELSE <<Trunc(dx * 10000, n), Trunc(dy * 10000, n)>>

mul(u, k10) == <<Trunc(u[1] * k10, 1000), Trunc(u[2] * k10, 1000)>>

\* cos and sin of a heading, in hundredths; a heading counts eighths of a turn
Cos100(h) == <<100, 71, 0, -71, -100, -71, 0, 71>>[(h % 8) + 1]

Sin100(h) == Cos100(h + 6)

(***************************************************************************)
(* models.py: Species and Creature records.  A Species is immutable, so a  *)
(* creature carries the record itself (name and color, which no rule       *)
(* reads, are left out).  Creature.target is never read and is left out.   *)
(***************************************************************************)
Diets == {"herbivore", "carnivore", "omnivore"}

Species(id, aggression, bravery, metabolism, diet) ==
  [id |-> id, aggression |-> aggression, bravery |-> bravery,
   metabolism |-> metabolism, diet |-> diet]

\* ui/app.py _seed_species (main.py _seed_species has the same ids and diets)
SeedSpecies ==
  { Species(1, 7, 11, 20, "omnivore"),
    Species(2, 2, 16, 19, "herbivore"),
    Species(3, 13, 8, 21, "carnivore") }

\* live.py step: the two species of the emergency reseed
ReseedSpecies ==
  << Species(1, 6, 10, 20, "omnivore"), Species(2, 2, 16, 18, "herbivore") >>

\* the dataclass constructor with its defaults: eaten 0, alive, not going home,
\* heading 0, hungry_streak as given, no kills, no injury
Creature(id, sp, speed, size, sense, hungry_streak) ==
  [id |-> id, species |-> sp, speed |-> speed, size |-> size, sense |-> sense,
   x |-> 0, y |-> 0, home |-> <<0, 0>>, energy |-> 0,
   eaten |-> 0, alive |-> TRUE, going_home |-> FALSE, heading |-> 0,
   hungry_streak |-> hungry_streak, prey_kills_today |-> 0,
   injury_days_left |-> 0, injury_speed_mult |-> 10]

\* variant: only the distance along x is compared with the margin
at_home_along_x(c, margin100) ==
  Hypot100(c.x - c.home[1], 0) <= margin100

\* Creature.at_home: distance to home <= margin
at_home(c, margin100) ==
  Hypot100(c.x - c.home[1], c.y - c.home[2]) <= margin100

\* Creature.effective_speed, in tenths of a cell per time unit
\* variant: an injury does not slow the creature down
effective_speed_uninjured(c) == c.speed

effective_speed(c) ==
  IF c.injury_days_left > 0 THEN (c.speed * c.injury_speed_mult) \div 10 ELSE c.speed

(***************************************************************************)
(* behaviors.py: radii and the diet rule.                                  *)
(***************************************************************************)
bite_radius(c) == (BiteScale100 * c.size) \div 5

Clamp01(v) == Max(0, Min(20, v))

\* <<r_food, r_pred, r_prey>> in hundredths of a cell
sense_radii(me) ==
  LET r_food == me.sense * SenseFoodScale100
      r_pred == me.sense * SensePredScale100
      r_prey == me.sense * SensePreyScale100
      prey2 == (r_prey * (40 + Clamp01(me.species.aggression))) \div 40
      pred2 == (r_pred * (40 + Clamp01(20 - me.species.bravery))) \div 40
      food2 == IF me.species.diet = "herbivore" THEN (r_food * 110) \div 100 ELSE r_food
  IN <<food2, pred2, prey2>>

\* variant: the rule without the ban on carnivore prey
can_eat_any_prey(pred, prey) ==
  IF pred.species.diet = "herbivore" THEN FALSE
  ELSE IF pred.species.diet = "carnivore" THEN 10 * prey.size <= 14 * pred.size
  ELSE IF pred.species.diet = "omnivore" THEN 10 * pred.size >= 12 * prey.size
  ELSE FALSE

can_eat(pred, prey) ==
  IF pred.species.diet = "herbivore" THEN FALSE
  ELSE IF prey.species.diet = "carnivore" THEN FALSE
  ELSE IF pred.species.diet = "carnivore" THEN 10 * prey.size <= 14 * pred.size
  ELSE IF pred.species.diet = "omnivore" THEN 10 * pred.size >= 12 * prey.size
  ELSE FALSE

\* kill probability in thousandths (behaviors.py and engine.py hold the same formula)
kill_probability(pred, prey) ==
  LET p == BasePKill
           + Trunc(SizeWeight * (pred.size - prey.size), prey.size)
           + Trunc(SpeedWeight * (pred.speed - prey.speed), 60)
  IN Max(MinPKill, Min(MaxPKill, p))

(***************************************************************************)
(* world.py: nearest_food_within.  The scan keeps the last of the food     *)
(* items at the least distance within the radius (d2 <= best_d2).  The     *)
(* result is an index into the food list, 0 for None.                      *)
(***************************************************************************)
NearestLast(S, d2, r100) ==
  LET C == {j \in S : 10000 * d2[j] <= r100 * r100}
  IN IF C = {} THEN 0
     ELSE CHOOSE j \in C : \A k \in C : d2[j] < d2[k] \/ (d2[j] = d2[k] /\ j >= k)

nearest_food_within(fd, x, y, r100) ==
  NearestLast(DOMAIN fd, [j \in DOMAIN fd |-> Dist2(fd[j].x, fd[j].y, x, y)], r100)

(***************************************************************************)
(* behaviors.py: step_behavior(world, me, others, dt, steps_left).  me is  *)
(* others[i].  drift is the draw of the wander branch, in eighths of a     *)
(* turn.  The result holds the returned velocity, the two fields the       *)
(* function writes (going_home, heading) and the rule that decided.        *)
(***************************************************************************)
Decision(v, gh, hd, branch) ==
  [v |-> v, going_home |-> gh, heading |-> hd, branch |-> branch]

\* steps_required >= steps_left * pct / 100
StepGate(dist_home, eff, steps_left, pct) ==
  IF eff * Dt = 0 THEN dist_home > 0 \/ steps_left = 0
  ELSE dist_home * 10 >= steps_left * pct * eff * Dt

\* (B) the energy needed to reach home, with the margin
ReturnNeed(me, dist_home, eff) ==
  LET s3 == me.size * me.size * me.size
      k == (CMove * s3 * eff * eff) \div 100 + CSize * s3 + CSense * 125 * me.sense
  IN (((k * dist_home) \div Max(eff, 1)) * ReturnEnergyMarginPct) \div 5000

\* variant: only a peer of more than 1.2 times the size is fled from
FleeFrom_strictly_larger(me, i, others, r_pred) ==
  NearestLast({j \in DOMAIN others : others[j].alive /\ others[j].id # me.id
                                      /\ 10 * others[j].size > 12 * me.size},
              [j \in DOMAIN others |-> Dist2(others[j].x, others[j].y, me.x, me.y)], r_pred)

\* the peer to flee from: the last of the nearest living peers of size >= 1.2 x
FleeFrom(me, i, others, r_pred) ==
  NearestLast({j \in DOMAIN others : others[j].alive /\ others[j].id # me.id
                                      /\ 10 * others[j].size >= 12 * me.size},
              [j \in DOMAIN others |-> Dist2(others[j].x, others[j].y, me.x, me.y)], r_pred)

AvoidOn(me) ==
  \/ me.species.diet = "herbivore"
  \/ (me.species.diet = "omnivore" /\ me.prey_kills_today = 0 /\ me.eaten = 0)

\* the sum of f[j] over the j in S
RECURSIVE SumOver(_, _)
SumOver(S, f) ==
  IF S = {} THEN 0 ELSE LET j == CHOOSE k \in S : TRUE IN f[j] + SumOver(S \ {j}, f)

\* the living carnivores and omnivores within the widened radius
Threats(me, others, r_pred) ==
  LET scan_r == (r_pred * AvoidRadiusMultPct) \div 100
  IN {j \in DOMAIN others :
        /\ others[j].alive /\ others[j].id # me.id
        /\ others[j].species.diet \in {"carnivore", "omnivore"}
        /\ 10000 * Dist2(others[j].x, others[j].y, me.x, me.y) <= scan_r * scan_r}

\* the direction away from the centroid of the threats (scaled by their number)
AvoidDir(me, others, T) ==
  unit(me.x * Cardinality(T) - SumOver(T, [j \in T |-> others[j].x]),
       me.y * Cardinality(T) - SumOver(T, [j \in T |-> others[j].y]))

HuntScore(me, o, hungry) ==
  LET p0 == kill_probability(me, o)
      p == IF hungry THEN Max(MinPKill, Min(MaxPKill, p0 + HungryPKillBonus)) ELSE p0
      d == Hypot100(o.x - me.x, o.y - me.y)
  IN (p * 1000) \div (100 + d)

\* the hunt candidate: the first of the best-scored eligible peers in range, 0 for None
HuntCandidate(me, others, r_prey, hungry) ==
  LET scan_r == IF hungry THEN (r_prey * HungryPreyRadiusMultPct) \div 100 ELSE r_prey
      C == {j \in DOMAIN others :
              /\ others[j].alive /\ others[j].id # me.id
              /\ can_eat(me, others[j])
              /\ Hypot100(others[j].x - me.x, others[j].y - me.y) <= scan_r}
  IN IF C = {} THEN 0
     ELSE CHOOSE j \in C : \A k \in C :
            \/ HuntScore(me, others[j], hungry) > HuntScore(me, others[k], hungry)
            \/ (HuntScore(me, others[j], hungry) = HuntScore(me, others[k], hungry) /\ j <= k)

\* the hard cap of the hunting branch
KillCapReached(me) == me.prey_kills_today >= 1

WantHunt(me) ==
  /\ (me.species.diet = "carnivore" \/ me.species.aggression > 10 \/ me.eaten = 0)
  /\ ~KillCapReached(me)

\* variant: the gates decide afresh in every tick, whatever was decided before
GoingHomeAfterGates_unlatched(me, steps_left) ==
  LET diet == me.species.diet
      eff == effective_speed(me)
      dist_home == Hypot100(me.home[1] - me.x, me.home[2] - me.y)
      a == IF diet = "herbivore"
           THEN \/ me.eaten >= 3
                \/ (me.eaten = 2 /\ StepGate(dist_home, eff, steps_left, 82))
                \/ (me.eaten = 1 /\ StepGate(dist_home, eff, steps_left, 80))
           ELSE StepGate(dist_home, eff, steps_left, 95)
      b == me.energy <= ReturnNeed(me, dist_home, eff)
      c == diet # "herbivore" /\ me.eaten >= 2
  IN me.eaten >= 3 \/ a \/ b \/ c

\* the commit-to-home gates (A), (B), (C) and the eaten >= 3 rule before them
GoingHomeAfterGates(me, steps_left) ==
  LET diet == me.species.diet
      eff == effective_speed(me)
      dist_home == Hypot100(me.home[1] - me.x, me.home[2] - me.y)
      a == IF diet = "herbivore"
           THEN \/ me.eaten >= 3
                \/ (me.eaten = 2 /\ StepGate(dist_home, eff, steps_left, 82))
                \/ (me.eaten = 1 /\ StepGate(dist_home, eff, steps_left, 80))
           ELSE StepGate(dist_home, eff, steps_left, 95)
      b == me.energy <= ReturnNeed(me, dist_home, eff)
      c == diet # "herbivore" /\ me.eaten >= 2
  IN me.going_home \/ me.eaten >= 3 \/ a \/ b \/ c

step_behavior(fd, i, others, steps_left, drift) ==
  LET me == others[i]
      diet == me.species.diet
      eff == effective_speed(me)
      radii == sense_radii(me)
      dxh == me.home[1] - me.x
      dyh == me.home[2] - me.y
      dist_home == Hypot100(dxh, dyh)
      home == dist_home <= HomeMargin100
      near_home == dist_home * 10 <= HomeMargin100 * 11
      gh == GoingHomeAfterGates(me, steps_left)
      predator == FleeFrom(me, i, others, radii[2])
      T == Threats(me, others, radii[2])
      f == nearest_food_within(fd, me.x, me.y, radii[1])
      hungry == me.hungry_streak >= HungryStreakForBravery
      candidate == HuntCandidate(me, others, radii[3], hungry)
      min_score == IF hungry THEN HungryMinScore ELSE BaseMinScore
      home_bias == IF diet = "herbivore" /\ me.eaten >= 1
                   THEN (IF me.eaten = 1 THEN 35 ELSE 45) ELSE 0
  IN IF ~me.alive THEN Decision(<<0, 0>>, me.going_home, me.heading, "dead")
     ELSE IF predator # 0
     THEN IF home \/ (near_home /\ gh)
          THEN IF ~home THEN Decision(mul(unit(dxh, dyh), eff), gh, me.heading, "hold")
               ELSE Decision(<<0, 0>>, gh, me.heading, "hold")
          ELSE Decision(mul(unit(me.x - others[predator].x, me.y - others[predator].y), eff),
                        gh, me.heading, "flee")
     ELSE IF gh
     THEN LET v_req125 == IF steps_left > 0
                          THEN (dist_home * 125) \div (980 * steps_left * Dt) ELSE eff
          IN Decision(mul(unit(dxh, dyh), Min(eff, v_req125)), gh, me.heading, "home")
     ELSE IF AvoidOn(me) /\ Cardinality(T) >= AvoidMinCount
             /\ AvoidDir(me, others, T) # <<0, 0>>
     THEN Decision(mul(AvoidDir(me, others, T), eff), gh, me.heading, "avoid")
     ELSE IF diet \in {"herbivore", "omnivore"} /\ f # 0
     THEN LET to_food == unit(fd[f].x - me.x, fd[f].y - me.y)
              to_home == unit(dxh, dyh)
              blend == unit(Trunc(to_food[1] * (100 - home_bias) + to_home[1] * home_bias, 100),
                            Trunc(to_food[2] * (100 - home_bias) + to_home[2] * home_bias, 100))
          IN Decision(mul(IF home_bias > 0 THEN blend ELSE to_food, eff),
                      gh, me.heading, "forage")
     ELSE IF diet \in {"carnivore", "omnivore"} /\ WantHunt(me) /\ candidate # 0
             /\ HuntScore(me, others[candidate], hungry) >= min_score
     THEN Decision(mul(unit(others[candidate].x - me.x, others[candidate].y - me.y), eff),
                   gh, me.heading, "hunt")
     ELSE LET hd == (me.heading + drift * Dt) % 8
              vmag == (WanderSpeedPct * eff) \div 100
          IN Decision(<<Trunc(Cos100(hd) * vmag, 1000), Trunc(Sin100(hd) * vmag, 1000)>>,
                      gh, hd, "wander")

(***************************************************************************)
(* The values the random draws are taken from.                             *)
(***************************************************************************)
Speeds == {20}

Sizes == {5, 6}

Senses == {2, 3}

InitSenses == {2}

\* RNG.uniform(-wander_turn_rate, wander_turn_rate) * dt, in eighths of a turn
Drifts == {-1, 1}

\* RNG.uniform(0, width), RNG.uniform(0, height): where a food item may land
FoodPoints == {<<1, 2>>, <<2, 3>>}

\* RNG.uniform(0, 2 pi) in _predator_center_point, in eighths of a turn
Angles == {0, 4}

\* the draws of a new species: aggression, bravery, metabolism, diet
NewSpeciesDraws ==
  [aggression : {16}, bravery : {4}, metabolism : {MinMetabolism},
   diet : Diets]

(***************************************************************************)
(* State.                                                                  *)
(***************************************************************************)
VARIABLES
  population,       \* LiveSim.population: the list of Creature records
  food,             \* World.food: the list of Food records [x, y, id]
  food_id,          \* World._food_id
  day,              \* LiveSim.day
  step_in_day,      \* LiveSim.step_in_day
  next_id,          \* LiveSim._next_id
  next_species_id,  \* LiveSim._next_species_id
  lineage,          \* LineageTracker.nodes: species id -> SpeciesNode
  snapshot,         \* LiveSim.last_population_snapshot (<<>> for None)
  velocities,       \* _step_once: the list of (id, vx, vy) of the tick
  survivors,        \* step: the survivors of end_of_day_selection (indices)
  repro_orders,     \* step: the orders <<parent index, offspring count>>
  new_pop,          \* step: the next population while it is built
  pc,               \* where the step call stands: <<phase, index>>
  last,             \* what the last action did (for the properties)
  rng,              \* RNG._rng: the seed and the number of draws made
  n_food,           \* WORLD.n_food: the food items spawned per day (mutable configuration)
  twin,             \* the record of an earlier run from the same seed (for the properties)
  species_seen,     \* the species ids used so far in the run (for the properties)
  ids_seen          \* the creature ids used so far in the run (for the properties)

\* the state of the run
run_state == <<population, food, food_id, day, step_in_day, next_id, next_species_id,
               lineage, snapshot, velocities, survivors, repro_orders, new_pop, pc, last,
               rng>>

vars == <<population, food, food_id, day, step_in_day, next_id, next_species_id,
          lineage, snapshot, velocities, survivors, repro_orders, new_pop, pc, last,
          rng, n_food, twin, species_seen, ids_seen>>

(***************************************************************************)
(* rng.py: the generator.  With the seed left open (seed 0) a draw returns *)
(* any value of its set.  Under a seed the generator is a function of the  *)
(* seed and of the number of draws made since RNG.seed: the k-th draw of a *)
(* step returns the one value of its set that this number selects.         *)
(***************************************************************************)
Unseeded == [seed |-> 0, n |-> 0]

\* the output of the generator of seed s at its n-th draw
Mix(s, n) == ((s + 3) * (n + 5) * (s + n + 1) + s * s) % 9973

\* the n-th element of a finite set, in a fixed order
RECURSIVE NthOf(_, _)
NthOf(S, n) ==
  LET x == CHOOSE y \in S : TRUE
  IN IF n <= 1 THEN x ELSE NthOf(S \ {x}, n - 1)

\* variant: a draw taken outside the seeded generator
Draw_outside_generator(S, k) == S

\* the values the k-th draw of a step (k = 0, 1, ...) may return from S
Draw(S, k) ==
  IF rng.seed = 0 THEN S
  ELSE {NthOf(S, (Mix(rng.seed, rng.n + k) % Cardinality(S)) + 1)}

\* the step made k draws
Advance(k) == rng' = IF rng.seed = 0 THEN rng ELSE [rng EXCEPT !.n = rng.n + k]

\* metrics.summarize_day: the per-day summary (averages as sums over n)
summarize_day(d, pop) ==
  LET n == Max(Len(pop), 1)
  IN [day |-> d, n |-> Len(pop),
      alive |-> Cardinality({k \in DOMAIN pop : pop[k].alive}),
      ate0 |-> Cardinality({k \in DOMAIN pop : pop[k].eaten = 0}),
      ate1 |-> Cardinality({k \in DOMAIN pop : pop[k].eaten = 1}),
      ate2p |-> Cardinality({k \in DOMAIN pop : pop[k].eaten >= 2}),
      avg_speed |-> <<SumOver(DOMAIN pop, [k \in DOMAIN pop |-> pop[k].speed]), n>>,
      avg_size |-> <<SumOver(DOMAIN pop, [k \in DOMAIN pop |-> pop[k].size]), n>>,
      avg_sense |-> <<SumOver(DOMAIN pop, [k \in DOMAIN pop |-> pop[k].sense]), n>>]


(***************************************************************************)
(* world.py: the day-start reset.                                          *)
(***************************************************************************)
clamp_inside(x, y) == <<Min(Max(x, 0), Width), Min(Max(y, 0), Height)>>

\* spawn_food_uniform(n): pts[k] is the k-th drawn point; ids go on from fid
spawn_food_uniform(fid, pts) ==
  [k \in DOMAIN pts |-> [x |-> pts[k][1], y |-> pts[k][2], id |-> fid + k]]

\* _predator_center_point for the angle drawn (ring of radius CenterRingRadius,
\* no jitter)
predator_center_point(ang) ==
  LET cx == Width \div 2
      cy == Height \div 2
      r0 == Max(0, CenterRingRadius)
  IN IF r0 = 0 THEN <<cx, cy>>
     ELSE clamp_inside(cx + Trunc(r0 * Cos100(ang), 100), cy + Trunc(r0 * Sin100(ang), 100))

\* the reset of one creature by spawn_creatures_at_edges
spawn_one(c, ang) ==
  LET h == predator_center_point(ang)
      left == IF c.injury_days_left > 0 THEN c.injury_days_left - 1 ELSE c.injury_days_left
  IN [c EXCEPT !.home = h, !.x = h[1], !.y = h[2],
               !.energy = BaseEnergy, !.eaten = 0, !.alive = TRUE,
               !.going_home = FALSE, !.prey_kills_today = 0,
               !.injury_days_left = left,
               !.injury_speed_mult =
                 IF c.injury_days_left > 0 /\ left <= 0 THEN 10 ELSE c.injury_speed_mult]

spawn_creatures_at_edges(pop, angs) ==
  [k \in DOMAIN pop |-> spawn_one(pop[k], angs[k])]

(***************************************************************************)
(* lineage.py.  A node is [parent_id, birth_day, extinct_day,              *)
(* current_count]; 0 stands for None.                                      *)
(***************************************************************************)
SpeciesNode(parent_id, birth_day) ==
  [parent_id |-> parent_id, birth_day |-> birth_day, extinct_day |-> 0,
   current_count |-> 0]

Put(f, k, v) == [j \in DOMAIN f \cup {k} |-> IF j = k THEN v ELSE f[j]]

register_root_species(nodes, sp, birth_day) ==
  IF sp.id \in DOMAIN nodes THEN nodes ELSE Put(nodes, sp.id, SpeciesNode(0, birth_day))

register_speciation(nodes, parent, child, birth_day) ==
  LET n1 == IF parent.id \notin DOMAIN nodes
            THEN register_root_species(nodes, parent, birth_day) ELSE nodes
  IN IF child.id \notin DOMAIN n1
     THEN Put(n1, child.id, SpeciesNode(parent.id, birth_day)) ELSE n1

\* register_root_species for each species of a list, from the k-th on
RECURSIVE RegisterRoots(_, _, _, _)
RegisterRoots(nodes, sps, k, birth_day) ==
  IF k > Len(sps) THEN nodes
  ELSE RegisterRoots(register_root_species(nodes, sps[k], birth_day), sps, k + 1, birth_day)

\* update_from_population raises KeyError at self.nodes[c.species.id] when a
\* creature's species has no node
MissingNode(nodes, creatures) ==
  \E k \in DOMAIN creatures : creatures[k].species.id \notin DOMAIN nodes

\* variant: a species with no creature is marked extinct on every update
update_from_population_marking_again(nodes, creatures, d) ==
  [sid \in DOMAIN nodes |->
     LET cnt == Cardinality({k \in DOMAIN creatures : creatures[k].species.id = sid})
         n == nodes[sid]
     IN [n EXCEPT !.current_count = cnt,
                  !.extinct_day = IF n.birth_day <= d /\ cnt = 0 THEN d ELSE n.extinct_day]]

update_from_population(nodes, creatures, d) ==
  [sid \in DOMAIN nodes |->
     LET cnt == Cardinality({k \in DOMAIN creatures : creatures[k].species.id = sid})
         n == nodes[sid]
     IN [n EXCEPT !.current_count = cnt,
                  !.extinct_day = IF n.extinct_day = 0 /\ n.birth_day <= d /\ cnt = 0
                                  THEN d ELSE n.extinct_day]]

(***************************************************************************)
(* engine.py: the integrator and the interactions.                         *)
(***************************************************************************)
clamp_speed(v, vmax10) ==
  IF 100 * (v[1] * v[1] + v[2] * v[2]) <= vmax10 * vmax10 \/ v = <<0, 0>> THEN v
  ELSE LET spd == Hypot100(v[1], v[2])
       IN <<Trunc(v[1] * vmax10 * 10, spd), Trunc(v[2] * vmax10 * 10, spd)>>

\* the cost of one tick at velocity v
EnergyCost(me, v) ==
  LET s3 == me.size * me.size * me.size
      base == CSize * s3 + CSense * 125 * me.sense
      move == CMove * s3 * (v[1] * v[1] + v[2] * v[2])
      leak == IF me.injury_days_left > 0 THEN InjuryEnergyLeak ELSE 0
  IN ((base + move) * me.species.metabolism + leak) * Dt

\* variant: the energy is charged but a creature at energy <= 0 is not marked dead
apply_energy_without_death(me, v) ==
  [me EXCEPT !.energy = me.energy - EnergyCost(me, v)]

apply_energy(me, v) ==
  LET e == me.energy - EnergyCost(me, v)
  IN [me EXCEPT !.energy = e, !.alive = IF e <= 0 THEN FALSE ELSE me.alive]

apply_motion(me, v) ==
  LET p == clamp_inside(me.x + v[1] * Dt, me.y + v[2] * Dt)
  IN [me EXCEPT !.x = p[1], !.y = p[2]]

\* the draws of one attack: RNG.uniform() <= p_kill, the injury draw with its
\* duration and multiplier, the counterattack draw
AttackDraws ==
  [hit : BOOLEAN, injure : BOOLEAN, days : InjuryDaysMin..InjuryDaysMax,
   mult : {InjurySpeedMultLo, InjurySpeedMultHi}, counter : BOOLEAN]

\* _resolve_attack: the kill cap
AttackCapReached(pred) == pred.prey_kills_today >= 1

\* _resolve_attack: the early returns
AttackSkipped(pred, prey) ==
  \/ ~pred.alive \/ ~prey.alive
  \/ AttackCapReached(pred)
  \/ ~can_eat(pred, prey)
  \/ (prey.species.diet = "carnivore" /\ pred.hungry_streak < 1)

\* variant: a new injury replaces the one the predator has
AttackFailed_latest_injury(pred, prey, d) ==
  LET e == pred.energy - EnergyLossOnFail
      p1 == [pred EXCEPT !.energy = e]
      p2 == IF d.injure
            THEN [p1 EXCEPT !.injury_days_left = d.days, !.injury_speed_mult = d.mult]
            ELSE p1
  IN IF e <= 0 THEN [p1 EXCEPT !.alive = FALSE]
     ELSE IF 10 * prey.size >= 12 * pred.size /\ d.counter THEN [p2 EXCEPT !.alive = FALSE]
     ELSE p2

\* the predator after a failed attack
AttackFailed(pred, prey, d) ==
  LET e == pred.energy - EnergyLossOnFail
      p1 == [pred EXCEPT !.energy = e]
      p2 == IF d.injure
            THEN [p1 EXCEPT !.injury_days_left = Max(pred.injury_days_left, d.days),
                            !.injury_speed_mult =
                              IF pred.injury_speed_mult < 10
                              THEN Min(pred.injury_speed_mult, d.mult) ELSE d.mult]
            ELSE p1
  IN IF e <= 0 THEN [p1 EXCEPT !.alive = FALSE]
     ELSE IF 10 * prey.size >= 12 * pred.size /\ d.counter THEN [p2 EXCEPT !.alive = FALSE]
     ELSE p2

\* variant: a kill is counted in prey_kills_today but not in eaten
resolve_attack_kill_not_eaten(pred, prey, d) ==
  IF AttackSkipped(pred, prey) THEN <<pred, prey, "skip">>
  ELSE IF d.hit
  THEN <<[pred EXCEPT !.prey_kills_today = pred.prey_kills_today + 1],
         [prey EXCEPT !.alive = FALSE], "kill">>
  ELSE <<AttackFailed(pred, prey, d), prey, "fail">>

\* _resolve_attack(pred, prey) under the draws d: <<pred, prey, outcome>>
resolve_attack(pred, prey, d) ==
  IF AttackSkipped(pred, prey) THEN <<pred, prey, "skip">>
  ELSE IF d.hit
  THEN <<[pred EXCEPT !.eaten = pred.eaten + 1,
                      !.prey_kills_today = pred.prey_kills_today + 1],
         [prey EXCEPT !.alive = FALSE], "kill">>
  ELSE <<AttackFailed(pred, prey, d), prey, "fail">>

\* variant: the scan for a target does not skip dead peers
PreyTarget_with_dead(i, others) ==
  LET me == others[i]
      r == bite_radius(me)
      t == NearestLast({j \in DOMAIN others : others[j].id # me.id /\ can_eat(me, others[j])},
                       [j \in DOMAIN others |-> Dist2(others[j].x, others[j].y, me.x, me.y)], r)
  IN IF ~me.alive THEN 0 ELSE t

\* _consume_prey_if_reached: the target in bite range (an index, 0 for None)
PreyTarget(i, others) ==
  LET me == others[i]
      r == bite_radius(me)
      t == NearestLast({j \in DOMAIN others : others[j].alive /\ others[j].id # me.id
                                               /\ can_eat(me, others[j])},
                       [j \in DOMAIN others |-> Dist2(others[j].x, others[j].y, me.x, me.y)], r)
  IN IF ~me.alive THEN 0
     ELSE IF t # 0 /\ Hypot100(others[t].x - me.x, others[t].y - me.y) <= r THEN t
     ELSE 0

\* _consume_prey_if_reached(me, others) under the draws d: <<others, target, outcome>>
consume_prey_if_reached(i, others, d) ==
  LET t == PreyTarget(i, others)
      r == resolve_attack(others[i], others[t], d)
  IN IF t = 0 THEN <<others, 0, "none">>
     ELSE <<[others EXCEPT ![i] = r[1], ![t] = r[2]], t, r[3]>>

\* variant: a carnivore eats plant food like the other diets
FoodTarget_for_any_diet(fd, me) ==
  LET r == bite_radius(me)
      f == nearest_food_within(fd, me.x, me.y, r)
  IN IF ~me.alive THEN 0
     ELSE IF f # 0 /\ Hypot100(fd[f].x - me.x, fd[f].y - me.y) <= r THEN f
     ELSE 0

\* variant: a creature killed earlier in the tick still eats
FoodTarget_of_the_dead(fd, me) ==
  LET r == bite_radius(me)
      f == nearest_food_within(fd, me.x, me.y, r)
  IN IF me.species.diet = "carnivore" THEN 0
     ELSE IF f # 0 /\ Hypot100(fd[f].x - me.x, fd[f].y - me.y) <= r THEN f
     ELSE 0

\* _consume_food_if_reached: the food item eaten (an index, 0 for none)
FoodTarget(fd, me) ==
  LET r == bite_radius(me)
      f == nearest_food_within(fd, me.x, me.y, r)
  IN IF ~me.alive \/ me.species.diet = "carnivore" THEN 0
     ELSE IF f # 0 /\ Hypot100(fd[f].x - me.x, fd[f].y - me.y) <= r THEN f
     ELSE 0

\* variant: the item eaten stays in the world
remove_food_left_in_place(fd, fid) == fd

\* World.remove_food(fid)
remove_food(fd, fid) == SelectSeq(fd, LAMBDA f : f.id # fid)

(***************************************************************************)
(* engine.py: end_of_day_selection.                                        *)
(***************************************************************************)
\* variant: a herbivore earns two offspring from two food items on
OffspringCount_two_at_two(c) ==
  IF c.species.diet = "carnivore" THEN (IF c.prey_kills_today >= 1 THEN 1 ELSE 0)
  ELSE IF c.species.diet = "omnivore"
  THEN (IF c.prey_kills_today >= 1 \/ c.eaten >= 2 THEN 1 ELSE 0)
  ELSE IF c.eaten >= 2 THEN 2
  ELSE 0

\* the offspring ordered for a creature that passed the gates (0: no order)
OffspringCount(c) ==
  IF c.species.diet = "carnivore" THEN (IF c.prey_kills_today >= 1 THEN 1 ELSE 0)
  ELSE IF c.species.diet = "omnivore"
  THEN (IF c.prey_kills_today >= 1 \/ c.eaten >= 2 THEN 1 ELSE 0)
  ELSE IF c.eaten >= 3 THEN 2
  ELSE IF c.eaten >= 2 THEN 1
  ELSE 0

\* one pass of the loop body: the creature afterwards, whether it is a survivor,
\* and the number of offspring ordered
select_one(c) ==
  LET streak == IF c.eaten = 0 THEN c.hungry_streak + 1 ELSE 0
      c1 == [c EXCEPT !.hungry_streak = streak]
  IN IF ~c.alive THEN [c |-> c, survivor |-> FALSE, kids |-> 0]
     ELSE IF streak >= 2 THEN [c |-> [c1 EXCEPT !.alive = FALSE], survivor |-> FALSE, kids |-> 0]
     ELSE IF c.eaten >= 1
     THEN IF ~at_home(c1, HomeMargin100)
          THEN [c |-> [c1 EXCEPT !.alive = FALSE], survivor |-> FALSE, kids |-> 0]
          ELSE [c |-> c1, survivor |-> TRUE, kids |-> OffspringCount(c1)]
     ELSE [c |-> c1, survivor |-> TRUE, kids |-> 0]

\* the indices of S in increasing order, as a sequence
RECURSIVE Ascending(_)
Ascending(S) ==
  IF S = {} THEN <<>>
  ELSE LET m == CHOOSE k \in S : \A j \in S : k <= j
       IN <<m>> \o Ascending(S \ {m})

\* end_of_day_selection(population): the population afterwards, the survivors and
\* the orders, both in population order
end_of_day_selection(pop) ==
  LET r == [k \in DOMAIN pop |-> select_one(pop[k])]
      sv == Ascending({k \in DOMAIN pop : r[k].survivor})
      od == Ascending({k \in DOMAIN pop : r[k].kids > 0})
  IN [pop |-> [k \in DOMAIN pop |-> r[k].c],
      survivors |-> sv,
      repro_orders |-> [k \in DOMAIN od |-> <<od[k], r[od[k]].kids>>]]

(***************************************************************************)
(* genetics.py.  _mutate_value returns the value unchanged or a clamped    *)
(* Gaussian draw around it: a child draw names the three trait values the  *)
(* child ends with and the draws of a species it may found.                *)
(***************************************************************************)
ChildDraws == [speed : Speeds, size : Sizes, sense : Senses, sp : NewSpeciesDraws]

\* variant: a drift equal to the threshold does not count
DriftAtThreshold_strictly_above(a, b) ==
  IF b = 0 THEN a # 0 ELSE 100 * Abs(a - b) > SpeciationThresholdPct * Abs(b)

\* rel(a, b) >= threshold_frac, with rel(a, b) = |a - b| / max(1e-6, |b|)
DriftAtThreshold(a, b) ==
  IF b = 0 THEN a # 0 ELSE 100 * Abs(a - b) >= SpeciationThresholdPct * Abs(b)

\* _maybe_speciate: whether the child founds a species
Speciates(parent, d) ==
  \/ DriftAtThreshold(d.speed, parent.speed)
  \/ DriftAtThreshold(d.size, parent.size)
  \/ DriftAtThreshold(d.sense, parent.sense)

\* variant: the founded species takes the id before the next free one
maybe_speciate_last_id(parent, d, next_sid) ==
  IF \/ DriftAtThreshold(d.speed, parent.speed)
     \/ DriftAtThreshold(d.size, parent.size)
     \/ DriftAtThreshold(d.sense, parent.sense)
  THEN Species(next_sid - 1, d.sp.aggression, d.sp.bravery, d.sp.metabolism, d.sp.diet)
  ELSE parent.species

\* _maybe_speciate: the species of the child
maybe_speciate(parent, d, next_sid) ==
  IF Speciates(parent, d)
  THEN Species(next_sid, d.sp.aggression, d.sp.bravery, d.sp.metabolism, d.sp.diet)
  ELSE parent.species

\* reproduce_N_children: the loop from child k on, given the ids reached
RECURSIVE ReproduceFrom(_, _, _, _, _, _)
ReproduceFrom(parent, draws, k, cid, sid, acc) ==
  IF k > Len(draws)
  THEN [children |-> acc.children, next_creature_id |-> cid, next_species_id |-> sid,
        events |-> acc.events]
  ELSE LET d == draws[k]
           sp == maybe_speciate(parent, d, sid)
           child == Creature(cid, sp, d.speed, d.size, d.sense, 0)
           new == Speciates(parent, d)
       IN ReproduceFrom(parent, draws, k + 1, cid + 1, IF new THEN sid + 1 ELSE sid,
            [children |-> Append(acc.children, child),
             events |-> IF new THEN Append(acc.events, <<parent.species, sp>>)
                        ELSE acc.events])

\* variant: the next creature id comes back as it went in
reproduce_N_children_id_not_advanced(parent, draws, next_cid, next_sid) ==
  [ReproduceFrom(parent, draws, 1, next_cid, next_sid, [children |-> <<>>, events |-> <<>>])
     EXCEPT !.next_creature_id = next_cid]

\* reproduce_N_children(parent, n_offspring, next_creature_id, next_species_id):
\* n_offspring is the length of draws
reproduce_N_children(parent, draws, next_cid, next_sid) ==
  ReproduceFrom(parent, draws, 1, next_cid, next_sid, [children |-> <<>>, events |-> <<>>])

\* variant: the speciation events are not registered
RegisterEvents_dropped(nodes, events, k, birth_day) == nodes

RECURSIVE RegisterEvents(_, _, _, _)
RegisterEvents(nodes, events, k, birth_day) ==
  IF k > Len(events) THEN nodes
  ELSE RegisterEvents(register_speciation(nodes, events[k][1], events[k][2], birth_day),
                      events, k + 1, birth_day)

(***************************************************************************)
(* live.py: LiveSim.                                                       *)
(***************************************************************************)
MaxOf(S) == IF S = {} THEN 0 ELSE CHOOSE m \in S : \A k \in S : m >= k

Ids(pop) == {pop[k].id : k \in DOMAIN pop}

SpeciesIds(pop) == {pop[k].species.id : k \in DOMAIN pop}

\* the population handed to the constructor: ids 1..InitPop, seed species
InitialPopulations ==
  {p \in [1..InitPop -> [sp : SeedSpecies, speed : Speeds, size : Sizes, sense : InitSenses]] :
     \A k \in 1..InitPop : p[k].sp.id = ((k - 1) % 3) + 1}

InitialCreatures(p) ==
  [k \in DOMAIN p |-> Creature(k, p[k].sp, p[k].speed, p[k].size, p[k].sense, 0)]

NoLast == [kind |-> "none", who |-> 0, target |-> 0, info |-> "none"]

Last(kind, who, target, info) ==
  [kind |-> kind, who |-> who, target |-> target, info |-> info]

(***************************************************************************)
(* Two runs from one seed.  The first run (twin.run = 1) writes down every *)
(* state it goes through, with the summary of the day; the second run      *)
(* (twin.run = 2), constructed again from the same seed and the same       *)
(* initial population, counts its steps.  twin.run = 0: a single run.      *)
(***************************************************************************)
NoTwin == [run |-> 0, start |-> <<>>, trace |-> <<>>, at |-> 0]

Track ==
  /\ species_seen' = species_seen \cup SpeciesIds(population') \cup SpeciesIds(new_pop')
                        \cup DOMAIN lineage'
  /\ ids_seen' = ids_seen \cup Ids(population') \cup Ids(new_pop')
  /\ twin' = IF twin.run = 1
            THEN [twin EXCEPT !.trace = Append(@, <<run_state', summarize_day(day', population')>>)]
            ELSE IF twin.run = 2 THEN [twin EXCEPT !.at = @ + 1]
            ELSE twin

\* LiveSim.__init__ followed by its start_new_day
Init ==
  \E p \in InitialPopulations, pts \in [1..NFood -> FoodPoints], angs \in [1..InitPop -> Angles] :
    LET pop == InitialCreatures(p)
    IN /\ population = spawn_creatures_at_edges(pop, angs)
       /\ food = spawn_food_uniform(0, pts)
       /\ food_id = NFood
       /\ day = 1
       /\ step_in_day = 0
       /\ next_id = MaxOf(Ids(pop)) + 1
       /\ next_species_id = MaxOf(SpeciesIds(pop)) + 1
       /\ lineage = RegisterRoots(<<>>, [k \in DOMAIN pop |-> pop[k].species], 1, 1)
       /\ snapshot = <<>>
       /\ velocities = <<>>
       /\ survivors = <<>>
       /\ repro_orders = <<>>
       /\ new_pop = <<>>
       /\ pc = <<"decide", 1>>
       /\ last = NoLast
       /\ rng = Unseeded
       /\ n_food = NFood
       /\ twin = NoTwin
       /\ species_seen = SpeciesIds(pop)
       /\ ids_seen = Ids(pop)

\* variant: the creature is moved as soon as its velocity is decided
Decide_then_move(i) ==
  /\ pc = <<"decide", i>>
  /\ i \in DOMAIN population
  /\ \E drift \in Drifts :
       LET d == step_behavior(food, i, population, DaySteps - step_in_day, drift)
           v == clamp_speed(d.v, effective_speed(population[i]))
           me == [population[i] EXCEPT !.going_home = d.going_home, !.heading = d.heading]
       IN /\ velocities' = Append(velocities, <<me.id, v>>)
          /\ population' = [population EXCEPT ![i] = IF me.alive THEN apply_motion(me, v) ELSE me]
          /\ last' = Last("decide", i, 0, d.branch)
  /\ pc' = IF i < Len(population) THEN <<"decide", i + 1>> ELSE <<"apply", 1>>
  /\ UNCHANGED <<food, food_id, day, step_in_day, next_id, next_species_id, lineage,
                 snapshot, survivors, repro_orders, new_pop, rng>>
  /\ UNCHANGED n_food
  /\ Track

\* _step_once, the velocities loop, for creature i
Decide(i) ==
  /\ pc = <<"decide", i>>
  /\ i \in DOMAIN population
  /\ LET me == population[i]
         steps_left == DaySteps - step_in_day
         b == step_behavior(food, i, population, steps_left, 0).branch
     IN IF ~me.alive
        THEN /\ velocities' = Append(velocities, <<me.id, <<0, 0>>>>)
             /\ population' = population
             /\ last' = Last("decide", i, 0, "dead")
             /\ Advance(0)
        ELSE \E drift \in (IF b = "wander" THEN Draw(Drifts, 0) ELSE {0}) :
               LET d == step_behavior(food, i, population, steps_left, drift)
                   v == clamp_speed(d.v, effective_speed(me))
               IN /\ velocities' = Append(velocities, <<me.id, v>>)
                  /\ population' = [population EXCEPT ![i].going_home = d.going_home,
                                                      ![i].heading = d.heading]
                  /\ last' = Last("decide", i, 0, d.branch)
                  /\ Advance(IF b = "wander" THEN 1 ELSE 0)
  /\ pc' = IF i < Len(population) THEN <<"decide", i + 1>> ELSE <<"apply", 1>>
  /\ UNCHANGED <<food, food_id, day, step_in_day, next_id, next_species_id, lineage,
                 snapshot, survivors, repro_orders, new_pop>>
  /\ UNCHANGED n_food
  /\ Track

\* id2 = {c.id: c for c in pop}: the last creature of that id
IdMap(pop, cid) == MaxOf({k \in DOMAIN pop : pop[k].id = cid})

\* variant: the creature is moved before its energy is looked at
Apply_moves_the_exhausted(k) ==
  /\ pc = <<"apply", k>>
  /\ k \in DOMAIN velocities
  /\ LET i == IdMap(population, velocities[k][1])
         v == velocities[k][2]
         me == population[i]
         e == apply_energy(me, v)
     IN /\ population' =
             IF ~me.alive THEN population
             ELSE IF ~e.alive THEN [population EXCEPT ![i] = apply_motion(e, v)]
             ELSE [population EXCEPT ![i] = apply_motion(e, v)]
        /\ last' = Last("apply", i, 0, IF me.alive THEN "applied" ELSE "dead")
  /\ pc' = IF k < Len(velocities) THEN <<"apply", k + 1>> ELSE <<"prey", 1>>
  /\ UNCHANGED <<food, food_id, day, step_in_day, next_id, next_species_id, lineage,
                 snapshot, velocities, survivors, repro_orders, new_pop, rng>>
  /\ UNCHANGED n_food
  /\ Track

\* _step_once, the energy + motion loop, for the k-th velocity
Apply(k) ==
  /\ pc = <<"apply", k>>
  /\ k \in DOMAIN velocities
  /\ LET i == IdMap(population, velocities[k][1])
         v == velocities[k][2]
         me == population[i]
         e == apply_energy(me, v)
     IN /\ population' =
             IF ~me.alive THEN population
             ELSE IF ~e.alive THEN [population EXCEPT ![i] = e]
             ELSE [population EXCEPT ![i] = apply_motion(e, v)]
        /\ last' = Last("apply", i, 0, IF me.alive THEN "applied" ELSE "dead")
  /\ pc' = IF k < Len(velocities) THEN <<"apply", k + 1>> ELSE <<"prey", 1>>
  /\ UNCHANGED <<food, food_id, day, step_in_day, next_id, next_species_id, lineage,
                 snapshot, velocities, survivors, repro_orders, new_pop, rng>>
  /\ UNCHANGED n_food
  /\ Track

\* variant: the day is checked for its end before the tick is counted
AfterInteraction_one_more_tick(i) ==
  IF i < Len(population)
  THEN /\ pc' = <<"prey", i + 1>>
       /\ UNCHANGED <<step_in_day, velocities>>
  ELSE /\ step_in_day' = step_in_day + 1
       /\ velocities' = <<>>
       /\ pc' = IF step_in_day < DaySteps THEN <<"decide", 1>> ELSE <<"select", 0>>

\* the end of the interactions loop body for creature i: the next creature, or
\* the end of the tick (step_in_day += 1) and of the day
AfterInteraction(i) ==
  IF i < Len(population)
  THEN /\ pc' = <<"prey", i + 1>>
       /\ UNCHANGED <<step_in_day, velocities>>
  ELSE /\ step_in_day' = step_in_day + 1
       /\ velocities' = <<>>
       /\ pc' = IF step_in_day + 1 < DaySteps THEN <<"decide", 1>> ELSE <<"select", 0>>

\* the draws creature i's attack can make: none is made without a target or on
\* an early return
AttackDrawsFor(i, others) ==
  IF PreyTarget(i, others) = 0 \/ AttackSkipped(others[i], others[PreyTarget(i, others)])
  THEN {CHOOSE d \in AttackDraws : TRUE}
  ELSE AttackDraws

\* _step_once, the interactions loop: _consume_prey_if_reached for creature i
Prey(i) ==
  /\ pc = <<"prey", i>>
  /\ i \in DOMAIN population
  /\ IF ~population[i].alive
     THEN /\ UNCHANGED population
          /\ last' = Last("prey", i, 0, "dead")
          /\ AfterInteraction(i)
          /\ Advance(0)
     ELSE /\ \E d \in Draw(AttackDrawsFor(i, population), 0) :
               LET r == consume_prey_if_reached(i, population, d)
               IN /\ population' = r[1]
                  /\ last' = Last("prey", i, r[2], r[3])
          /\ Advance(IF AttackDrawsFor(i, population) = AttackDraws THEN 1 ELSE 0)
          /\ pc' = <<"food", i>>
          /\ UNCHANGED <<step_in_day, velocities>>
  /\ UNCHANGED <<food, food_id, day, next_id, next_species_id, lineage, snapshot,
                 survivors, repro_orders, new_pop>>
  /\ UNCHANGED n_food
  /\ Track

\* _step_once, the interactions loop: _consume_food_if_reached for creature i
Food(i) ==
  /\ pc = <<"food", i>>
  /\ LET me == population[i]
         f == FoodTarget(food, me)
     IN IF f = 0
        THEN /\ UNCHANGED <<population, food>>
             /\ last' = Last("food", i, 0, "none")
        ELSE /\ population' = [population EXCEPT ![i].eaten = me.eaten + 1]
             /\ food' = remove_food(food, food[f].id)
             /\ last' = Last("food", i, food[f].id, "eaten")
  /\ AfterInteraction(i)
  /\ UNCHANGED <<food_id, day, next_id, next_species_id, lineage, snapshot,
                 survivors, repro_orders, new_pop, rng>>
  /\ UNCHANGED n_food
  /\ Track

\* variant: the copy of a survivor starts with a hunger streak of 0
Rebuilt_without_streak(s) == Creature(s.id, s.species, s.speed, s.size, s.sense, 0)

\* step: the rebuilt copy of a survivor
Rebuilt(s) == Creature(s.id, s.species, s.speed, s.size, s.sense, s.hungry_streak)

\* step, end of day: end_of_day_selection, the snapshot, the copies of the survivors
Select ==
  /\ pc = <<"select", 0>>
  /\ LET r == end_of_day_selection(population)
     IN /\ population' = r.pop
        /\ survivors' = r.survivors
        /\ repro_orders' = r.repro_orders
        /\ snapshot' = r.pop
        /\ new_pop' = [k \in DOMAIN r.survivors |-> Rebuilt(r.pop[r.survivors[k]])]
        /\ pc' = IF r.repro_orders # <<>> THEN <<"repro", 1>> ELSE <<"newday", 0>>
  /\ last' = Last("select", 0, 0, "none")
  /\ UNCHANGED <<food, food_id, day, step_in_day, next_id, next_species_id, lineage,
                 velocities, rng>>
  /\ UNCHANGED n_food
  /\ Track

\* step, the offspring loop: reproduce_N_children for the k-th order, then the
\* registration of its speciation events
Repro(k) ==
  /\ pc = <<"repro", k>>
  /\ k \in DOMAIN repro_orders
  /\ Len(new_pop) + repro_orders[k][2] <= MaxPop
  /\ Advance(1)
  /\ \E draws \in Draw([1..repro_orders[k][2] -> ChildDraws], 0) :
       LET r == reproduce_N_children(population[repro_orders[k][1]], draws,
                                     next_id, next_species_id)
       IN /\ new_pop' = new_pop \o r.children
          /\ next_id' = r.next_creature_id
          /\ next_species_id' = r.next_species_id
          /\ lineage' = RegisterEvents(lineage, r.events, 1, day + 1)
          /\ last' = Last("repro", repro_orders[k][1], 0,
                          IF r.events # <<>> THEN "speciation" ELSE "none")
  /\ pc' = IF k < Len(repro_orders) THEN <<"repro", k + 1>> ELSE <<"newday", 0>>
  /\ UNCHANGED <<population, food, food_id, day, step_in_day, snapshot, velocities,
                 survivors, repro_orders>>
  /\ UNCHANGED n_food
  /\ Track

\* start_new_day: spawn_food_uniform, spawn_creatures_at_edges, step_in_day = 0
StartNewDay(pop, pts, angs) ==
  /\ food' = spawn_food_uniform(food_id, pts)
  /\ food_id' = food_id + n_food
  /\ population' = spawn_creatures_at_edges(pop, angs)
  /\ step_in_day' = 0

\* variant: the survivors themselves, not copies, go into the next population
SharedWithSnapshot_survivors_kept(k) ==
  IF k \in DOMAIN survivors THEN survivors[k] ELSE 0

\* last_population_snapshot = list(self.population) is a new list of the same
\* Creature objects.  The index in the snapshot of the object that is also
\* the k-th creature of the next population, 0 for none: every creature of
\* new_pop is made by a constructor call (the copies of the survivors, the
\* children), so none is
SharedWithSnapshot(k) == 0

\* the snapshot as it reads once start_new_day has reset the objects of pop
SnapshotAfterReset(snap, pop) ==
  [j \in DOMAIN snap |->
     IF \E k \in DOMAIN pop : SharedWithSnapshot(k) = j
     THEN pop[CHOOSE k \in DOMAIN pop : SharedWithSnapshot(k) = j]
     ELSE snap[j]]

\* step, the end of the day boundary: the new population becomes current,
\* day += 1, the lineage update, start_new_day
NewDay ==
  /\ pc = <<"newday", 0>>
  /\ day < MaxDay
  /\ day' = day + 1
  /\ IF MissingNode(lineage, new_pop)
     THEN /\ pc' = <<"KeyError", 0>>
          /\ population' = new_pop
          /\ UNCHANGED <<food, food_id, step_in_day, lineage, rng, snapshot>>
     ELSE /\ lineage' = update_from_population(lineage, new_pop, day + 1)
          /\ pc' = <<"decide", 1>>
          /\ Advance(2)
          /\ \E pts \in Draw([1..n_food -> FoodPoints], 0),
                angs \in Draw([DOMAIN new_pop -> Angles], 1) :
               StartNewDay(new_pop, pts, angs)
          /\ snapshot' = SnapshotAfterReset(snapshot, population')
  /\ survivors' = <<>>
  /\ repro_orders' = <<>>
  /\ new_pop' = <<>>
  /\ last' = Last("newday", 0, 0, "none")
  /\ UNCHANGED <<next_id, next_species_id, velocities>>
  /\ UNCHANGED n_food
  /\ Track

\* step with an empty population: the emergency reseed
\* variant: the reseed does not register its species as roots
Reseed_without_roots ==
  /\ pc = <<"decide", 1>>
  /\ population = <<>>
  /\ LET pop == [k \in 1..ReseedCount |->
                   Creature(k, ReseedSpecies[((k - 1) % Len(ReseedSpecies)) + 1], 20, 5, 2, 0)]
     IN /\ next_species_id' = 3
        /\ next_id' = MaxOf(Ids(pop)) + 1
        /\ lineage' = <<>>
        /\ Advance(2)
        /\ \E pts \in Draw([1..n_food -> FoodPoints], 0),
              angs \in Draw([DOMAIN pop -> Angles], 1) :
             StartNewDay(pop, pts, angs)
  /\ last' = Last("reseed", 0, 0, "none")
  /\ UNCHANGED <<day, snapshot, velocities, survivors, repro_orders, new_pop, pc>>
  /\ UNCHANGED n_food
  /\ Track

Reseed ==
  /\ pc = <<"decide", 1>>
  /\ population = <<>>
  /\ LET pop == [k \in 1..ReseedCount |->
                   Creature(k, ReseedSpecies[((k - 1) % Len(ReseedSpecies)) + 1], 20, 5, 2, 0)]
     IN /\ next_species_id' = 3
        /\ next_id' = MaxOf(Ids(pop)) + 1
        /\ lineage' = RegisterRoots(<<>>, ReseedSpecies, 1, day)
        /\ Advance(2)
        /\ \E pts \in Draw([1..n_food -> FoodPoints], 0),
              angs \in Draw([DOMAIN pop -> Angles], 1) :
             StartNewDay(pop, pts, angs)
  /\ last' = Last("reseed", 0, 0, "none")
  /\ UNCHANGED <<day, snapshot, velocities, survivors, repro_orders, new_pop, pc>>
  /\ UNCHANGED n_food
  /\ Track

Next ==
  \/ \E i \in 1..MaxPop : Decide(i)
  \/ \E k \in 1..MaxPop : Apply(k)
  \/ \E i \in 1..MaxPop : Prey(i)
  \/ \E i \in 1..MaxPop : Food(i)
  \/ Select
  \/ \E k \in 1..MaxPop : Repro(k)
  \/ NewDay
  \/ Reseed

Spec == Init /\ [][Next]_vars

(***************************************************************************)
(* end_of_day_selection on its own: the step call stands at the end of a   *)
(* day, with a population of one or two creatures in any of the conditions *)
(* a day can leave them in.  A day leaves at most one kill per creature, a *)
(* herbivore without kills and a carnivore with nothing eaten but its      *)
(* kill.                                                                   *)
(***************************************************************************)
MaxEaten == 3

\* where a creature may stand at the end of the day, its home being <<2, 2>>
EndPoints == {<<2, 2>>, <<2, 3>>, <<3, 3>>, <<2, 4>>}

EndOfDayCreatures ==
  {c \in [sp : SeedSpecies, eaten : 0..MaxEaten, kills : 0..1, alive : BOOLEAN,
          hungry_streak : 0..1, at : EndPoints] :
     /\ c.kills <= c.eaten
     /\ c.sp.diet = "herbivore" => c.kills = 0
     /\ c.sp.diet = "carnivore" => c.eaten = c.kills}

EndOfDayCreature(id, c) ==
  [Creature(id, c.sp, 20, 5, 2, c.hungry_streak)
     EXCEPT !.eaten = c.eaten, !.prey_kills_today = c.kills, !.alive = c.alive,
            !.home = <<2, 2>>, !.x = c.at[1], !.y = c.at[2],
            !.energy = IF c.alive THEN InjuryEnergyLeak ELSE 0]

\* the rest of the state while one call is looked at on its own
Elsewhere(d, step, pcv) ==
  /\ food_id = NFood * d
  /\ day = d
  /\ step_in_day = step
  /\ next_id = Len(population) + 1
  /\ next_species_id = MaxOf(SpeciesIds(population)) + 1
  /\ lineage = RegisterRoots(<<>>, [k \in DOMAIN population |-> population[k].species], 1, 1)
  /\ snapshot = <<>>
  /\ velocities = <<>>
  /\ survivors = <<>>
  /\ repro_orders = <<>>
  /\ new_pop = <<>>
  /\ pc = pcv
  /\ last = NoLast
  /\ rng = Unseeded
  /\ n_food = NFood
  /\ twin = NoTwin
  /\ species_seen = SpeciesIds(population)
  /\ ids_seen = Ids(population)

InitSelect ==
  /\ \E n \in 1..2 : \E cs \in [1..n -> EndOfDayCreatures] :
       population = [k \in 1..n |-> EndOfDayCreature(k, cs[k])]
  /\ food = <<>>
  /\ Elsewhere(1, DaySteps, <<"select", 0>>)

SpecSelect == InitSelect /\ [][Select]_vars

(***************************************************************************)
(* The interactions of a tick on their own: two creatures stand in one     *)
(* cell when the interactions loop starts, on a day after the first (so a  *)
(* hunger streak may be 1), the first of them possibly with a kill made    *)
(* earlier in the day.                                                     *)
(***************************************************************************)
MeetSizes == {4, 5, 6, 7}

MeetingCreatures ==
  {c \in [sp : SeedSpecies, size : MeetSizes, hungry_streak : 0..1, kills : 0..1,
          energy : {BaseEnergy, EnergyLossOnFail}] :
     c.sp.diet = "herbivore" => c.kills = 0}

MeetingCreature(id, c) ==
  [Creature(id, c.sp, 20, c.size, 2, c.hungry_streak)
     EXCEPT !.eaten = c.kills, !.prey_kills_today = c.kills,
            !.home = <<2, 2>>, !.x = 2, !.y = 2, !.energy = c.energy]

InitInteract ==
  /\ \E a \in MeetingCreatures, b \in {c \in MeetingCreatures : c.kills = 0 /\ c.energy = BaseEnergy} :
       population = <<MeetingCreature(1, a), MeetingCreature(2, b)>>
  /\ food \in {<<>>, <<[x |-> 2, y |-> 2, id |-> NFood + 1]>>}
  /\ Elsewhere(2, 1, <<"prey", 1>>)

NextInteract == \E i \in 1..MaxPop : Prey(i) \/ Food(i)

SpecInteract == InitInteract /\ [][NextInteract]_vars

(***************************************************************************)
(* Properties.                                                             *)
(***************************************************************************)
\* the phases of a tick
TickPhases == {"decide", "apply", "prey", "food"}

\* the step call is inside a day: in a tick, or at the selection that ends it
InDay == pc[1] \in TickPhases \cup {"select"}

\* a tick has just ended (the next tick, or the selection, comes next)
TickEnded ==
  \/ pc = <<"select", 0>>
  \/ (pc = <<"decide", 1>> /\ step_in_day > 0)

\* the day has just been started by start_new_day
DayStarted == pc = <<"decide", 1>> /\ step_in_day = 0 /\ population # <<>>

\* C1: within a day no creature's energy increases from one step to the next,
\* and every creature that is alive inside a day (so at the end of every tick)
\* has positive energy: a creature whose energy reaches 0 or less, by the
\* cost of a tick or by the penalty of a failed attack, is dead at once.
C1_EnergyNeverRises ==
  /\ [](InDay => \A k \in DOMAIN population :
                   population[k].alive => population[k].energy > 0)
  /\ [][InDay => \A k \in DOMAIN population :
                   population'[k].energy <= population[k].energy]_vars

\* a tick has ended with one creature dead of exhaustion and another alive
\* that has paid for its ticks
C1_Witness ==
  /\ TickEnded
  /\ \E k \in DOMAIN population : ~population[k].alive /\ population[k].energy <= 0
  /\ \E k \in DOMAIN population :
       population[k].alive /\ population[k].energy < BaseEnergy

\* a dead creature is left exactly as it is (not moved, not charged, not fed,
\* not credited), takes no food and is no one's target
DeadIsInert ==
  /\ \A k \in DOMAIN population : ~population[k].alive => population'[k] = population[k]
  /\ (last'.kind = "food" /\ ~population[last'.who].alive) => food' = food
  /\ (last'.kind = "prey" /\ last'.target # 0) => population[last'.target].alive

\* the creatures of the day that ended (the snapshot of the selection) that are
\* dead have no id in the population that starts the day
DeadAbsent ==
  \A k \in DOMAIN snapshot : ~snapshot[k].alive => snapshot[k].id \notin Ids(population')

\* C2 as stated: a dead creature stays dead and inert for the rest of its day,
\* and no creature dead after the selection has its id in the population of
\* the next day, whichever way that population is installed (the day boundary
\* or the emergency reseed).
C2_AsStated ==
  [][/\ InDay => DeadIsInert
     /\ last'.kind \in {"newday", "reseed"} => DeadAbsent]_vars

\* C2, amended: a dead creature stays dead and inert for the rest of its day,
\* and no creature dead after the selection has its id in the population the
\* day boundary builds from the survivors and their offspring.
C2_DeadStaysOut ==
  [][/\ InDay => DeadIsInert
     /\ last'.kind = "newday" => DeadAbsent]_vars

\* a day has started with a survivor of a day in which another creature died
C2_Witness ==
  /\ DayStarted /\ last.kind = "newday"
  /\ \E k \in DOMAIN snapshot : ~snapshot[k].alive
  /\ \E k \in DOMAIN snapshot : snapshot[k].alive /\ snapshot[k].id \in Ids(population)

\* creature k has just been credited a kill or a food item
Fed(k) ==
  /\ last'.who = k
  /\ \/ (last'.kind = "prey" /\ last'.info = "kill")
     \/ (last'.kind = "food" /\ last'.info = "eaten")

\* C3: eaten is 0 for every creature when a day has been started; within the
\* day it never decreases, and it changes only by +1, exactly when the creature
\* is credited a kill or consumes a food item.
C3_EatenCounts ==
  /\ [](DayStarted => \A k \in DOMAIN population : population[k].eaten = 0)
  /\ [][InDay => \A k \in DOMAIN population :
                   population'[k].eaten =
                     population[k].eaten + (IF Fed(k) THEN 1 ELSE 0)]_vars

\* a creature has just eaten a food item after a kill earlier in the day
C3_Witness ==
  /\ last.kind = "food" /\ last.info = "eaten"
  /\ population[last.who].prey_kills_today = 1
  /\ population[last.who].eaten = 2

\* the day boundary has just been crossed into a started day
Boundary == pc = <<"newday", 0>> /\ pc' = <<"decide", 1>>

\* C4: across a day boundary a survivor's injury_days_left goes down by exactly
\* one (never below 0), its injury_speed_mult is back at 1.0 only when the
\* countdown has reached 0, and an injury with two or more days left still
\* slows it on the next day.
C4_InjuryCountsDown ==
  [][Boundary =>
       \A k \in DOMAIN survivors :
         LET s == population[survivors[k]]
             c == population'[k]
         IN /\ c.id = s.id
            /\ c.injury_days_left = Max(0, s.injury_days_left - 1)
            /\ c.injury_speed_mult =
                 (IF c.injury_days_left = 0 THEN 10 ELSE s.injury_speed_mult)
            /\ s.injury_days_left >= 2 => effective_speed(c) < c.speed]_vars

\* the selection rules as the table states them
FarFromHome(c) ==
  10000 * Dist2(c.x, c.y, c.home[1], c.home[2]) > HomeMargin100 * HomeMargin100

PassesGates(c) ==
  /\ c.alive
  /\ ~(c.eaten = 0 /\ c.hungry_streak >= 1)
  /\ ~(c.eaten >= 1 /\ FarFromHome(c))

TabledOffspring(c) ==
  CASE c.species.diet = "carnivore" -> IF c.prey_kills_today >= 1 THEN 1 ELSE 0
    [] c.species.diet = "omnivore" ->
         IF c.prey_kills_today >= 1 \/ c.eaten >= 2 THEN 1 ELSE 0
    [] c.species.diet = "herbivore" ->
         IF c.eaten >= 3 THEN 2 ELSE IF c.eaten = 2 THEN 1 ELSE 0

\* the orders of a list that name creature k as the parent
OrdersFor(k, orders) == {j \in DOMAIN orders : orders[j][1] = k}

\* C5: end_of_day_selection orders, for a living creature that passes the
\* starvation and home gates and has eaten, exactly the offspring of the table
\* (carnivore 1 with a kill; omnivore 1 with a kill or eaten >= 2; herbivore 2
\* at eaten >= 3, 1 at eaten = 2), orders nothing for a creature with
\* eaten = 0, one that fails a gate or a dead one, and never orders twice for
\* one creature.
C5_OffspringTable ==
  [][pc = <<"select", 0>> =>
       \A k \in DOMAIN population :
         LET c == population[k]
             want == IF PassesGates(c) /\ c.eaten >= 1 THEN TabledOffspring(c) ELSE 0
             got == OrdersFor(k, repro_orders')
         IN /\ Cardinality(got) <= 1
            /\ want = 0 => got = {}
            /\ want > 0 => \E j \in got : repro_orders'[j][2] = want]_vars

\* the selection has ordered two offspring for a herbivore and one for a
\* carnivore
C5_Witness ==
  /\ last.kind = "select"
  /\ \E j \in DOMAIN repro_orders :
       /\ repro_orders[j][2] = 2
       /\ population[repro_orders[j][1]].species.diet = "herbivore"
  /\ \E j \in DOMAIN repro_orders :
       /\ repro_orders[j][2] = 1
       /\ population[repro_orders[j][1]].species.diet = "carnivore"

\* creature c was alive after the selection of the day before, having eaten
\* nothing that day
AteNothingYesterday(c) ==
  \E j \in DOMAIN snapshot :
    snapshot[j].id = c.id /\ snapshot[j].alive /\ snapshot[j].eaten = 0

\* C6: a creature alive at the selection of two consecutive days with eaten = 0
\* on both is dead after the second selection and is not in the population
\* built for the next day; the selection adds 1 to the hunger streak of a
\* living creature with eaten = 0 and resets it to 0 otherwise, and the streak
\* of a survivor crosses the day boundary unchanged.
C6_TwoHungryDays ==
  [][/\ pc = <<"select", 0>> =>
          \A k \in DOMAIN population :
            LET c == population[k]
            IN /\ (c.alive /\ c.eaten = 0 /\ AteNothingYesterday(c)) =>
                    (~population'[k].alive /\ c.id \notin Ids(new_pop'))
               /\ c.alive => population'[k].hungry_streak =
                               (IF c.eaten = 0 THEN c.hungry_streak + 1 ELSE 0)
     /\ Boundary =>
          \A k \in DOMAIN survivors :
            /\ population'[k].id = population[survivors[k]].id
            /\ population'[k].hungry_streak = population[survivors[k]].hungry_streak]_vars

\* the second selection has marked dead a creature that still had energy, after
\* two days without food
C6_Witness ==
  /\ last.kind = "select" /\ day = 2
  /\ \E k \in DOMAIN population :
       /\ ~population[k].alive /\ population[k].energy > 0
       /\ population[k].eaten = 0 /\ population[k].hungry_streak = 2
       /\ population[k].id \notin Ids(new_pop)

\* C7: every survivor of the selection with eaten >= 1 is within home_margin
\* of its home, and a living creature with eaten >= 1 farther than home_margin
\* from its home is marked dead, is no survivor and gets no order.
C7_HomeGate ==
  [][pc = <<"select", 0>> =>
       /\ \A j \in DOMAIN survivors' :
            population[survivors'[j]].eaten >= 1 => ~FarFromHome(population[survivors'[j]])
       /\ \A k \in DOMAIN population :
            (population[k].alive /\ population[k].eaten >= 1 /\ FarFromHome(population[k])) =>
              /\ ~population'[k].alive
              /\ \A j \in DOMAIN survivors' : survivors'[j] # k
              /\ OrdersFor(k, repro_orders') = {}]_vars

\* the selection has marked dead an omnivore that had eaten and still had
\* energy but stood far from its home (its only peers are herbivores, which
\* kill no one)
C7_Witness ==
  /\ last.kind = "select"
  /\ \E k \in DOMAIN population :
       /\ population[k].species.diet = "omnivore"
       /\ ~population[k].alive /\ population[k].energy > 0
       /\ population[k].eaten >= 1 /\ FarFromHome(population[k])
       /\ \A j \in DOMAIN population \ {k} : population[j].species.diet = "herbivore"

\* the diet rule as a table over the two diets and the two sizes (in fifths)
RuleTable(pd, ps, qd, qs) ==
  CASE pd = "herbivore" -> FALSE
    [] pd # "herbivore" /\ qd = "carnivore" -> FALSE
    [] pd = "carnivore" /\ qd # "carnivore" -> 5 * qs <= 7 * ps
    [] pd = "omnivore" /\ qd # "carnivore" -> 5 * ps >= 6 * qs

\* a creature of which only the diet and the size are those of c
DietAndSize(c) ==
  Creature(0, Species(0, 0, 0, 0, c.species.diet), 0, c.size, 0, 0)

\* C8: can_eat(pred, prey) is decided by the two diets and the two sizes alone
\* and equals the rule table: never for a herbivore pred, never for carnivore
\* prey, for a carnivore pred iff prey.size <= 1.4 pred.size, for an omnivore
\* pred iff pred.size >= 1.2 prey.size; and an attack is resolved only on prey
\* the table allows.
C8_CanEatTable ==
  /\ \A i, j \in DOMAIN population :
       LET p == population[i]
           q == population[j]
       IN i # j =>
            /\ can_eat(p, q) = RuleTable(p.species.diet, p.size, q.species.diet, q.size)
            /\ can_eat(p, q) = can_eat(DietAndSize(p), DietAndSize(q))
  /\ (last.kind = "prey" /\ last.info \in {"kill", "fail"}) =>
       RuleTable(population[last.who].species.diet, population[last.who].size,
                 population[last.target].species.diet, population[last.target].size)

\* a carnivore has just killed an omnivore of exactly 1.4 times its size
C8_Witness ==
  /\ last.kind = "prey" /\ last.info = "kill"
  /\ population[last.who].species.diet = "carnivore"
  /\ population[last.target].species.diet = "omnivore"
  /\ 5 * population[last.target].size = 7 * population[last.who].size

\* the kill cap as stated
ClaimedKillCap(c) == IF c.hungry_streak >= 1 THEN 2 ELSE 1

\* C9: the kill cap of a day is 1 at hunger streak 0 and 2 at hunger streak
\* >= 1: no predator has more kills than its cap, and an attack on a target in
\* bite range that no other rule turns away is resolved exactly when the
\* predator's kills of the day are below its cap (so a hungry predator with
\* one kill has its second attack resolved).
C9_KillCap ==
  /\ [](\A k \in DOMAIN population :
          population[k].prey_kills_today <= ClaimedKillCap(population[k]))
  /\ [][\A i \in DOMAIN population :
          (pc = <<"prey", i>> /\ population[i].alive /\ PreyTarget(i, population) # 0) =>
            LET me == population[i]
                prey == population[PreyTarget(i, population)]
            IN (prey.species.diet = "carnivore" => me.hungry_streak >= 1) =>
                 (last'.info \in {"kill", "fail"}
                    <=> me.prey_kills_today < ClaimedKillCap(me))]_vars

\* C10: a tick is two-phase: while the velocities are decided nothing changes
\* but the deciding creature's own going_home and heading (no position, energy,
\* eaten count, alive flag or food item), and when the first creature is
\* charged and moved the velocity of every creature has been decided.
C10_TwoPhase ==
  /\ [](pc[1] \in {"apply", "prey", "food"} =>
          /\ Len(velocities) = Len(population)
          /\ \A k \in DOMAIN population : velocities[k][1] = population[k].id)
  /\ [][(pc[1] = "decide" /\ population # <<>>) =>
          /\ food' = food
          /\ \A k \in DOMAIN population :
               /\ population'[k] = [population[k] EXCEPT
                                      !.going_home = population'[k].going_home,
                                      !.heading = population'[k].heading]
               /\ k # pc[2] => population'[k] = population[k]]_vars

\* all velocities of a tick are decided and no one has been moved yet: the last
\* decision turned its creature's heading, and a creature has committed to
\* going home
C10_Witness ==
  /\ pc = <<"apply", 1>>
  /\ last.kind = "decide" /\ last.info = "wander"
  /\ population[last.who].heading # 0
  /\ \E k \in DOMAIN population : population[k].going_home


(***************************************************************************)
(* Runs under a seed.  RNG.seed(seed) is the first statement of            *)
(* LiveSim.__init__; the constructor then registers the roots and calls    *)
(* start_new_day, whose draws are the first draws of the generator.        *)
(***************************************************************************)
NSeeds == 40

Seeds == 1..NSeeds

InitSeeded ==
  \E seed \in Seeds, p \in InitialPopulations :
    LET pop == InitialCreatures(p)
    IN /\ rng = [seed |-> seed, n |-> 0]
       /\ population = pop
       /\ food = <<>>
       /\ food_id = 0
       /\ day = 1
       /\ step_in_day = 0
       /\ next_id = MaxOf(Ids(pop)) + 1
       /\ next_species_id = MaxOf(SpeciesIds(pop)) + 1
       /\ lineage = RegisterRoots(<<>>, [k \in DOMAIN pop |-> pop[k].species], 1, 1)
       /\ snapshot = <<>>
       /\ velocities = <<>>
       /\ survivors = <<>>
       /\ repro_orders = <<>>
       /\ new_pop = <<>>
       /\ pc = <<"construct", 0>>
       /\ last = NoLast
       /\ n_food = NFood
       /\ twin = [run |-> 1, start |-> run_state, trace |-> <<>>, at |-> 0]
       /\ species_seen = SpeciesIds(pop)
       /\ ids_seen = Ids(pop)

\* LiveSim.__init__, its last statement: start_new_day()
Construct ==
  /\ pc = <<"construct", 0>>
  /\ Advance(2)
  /\ \E pts \in Draw([1..n_food -> FoodPoints], 0),
        angs \in Draw([DOMAIN population -> Angles], 1) :
       StartNewDay(population, pts, angs)
  /\ pc' = <<"decide", 1>>
  /\ last' = Last("construct", 0, 0, "none")
  /\ UNCHANGED <<day, next_id, next_species_id, lineage, snapshot, velocities,
                 survivors, repro_orders, new_pop>>
  /\ UNCHANGED n_food
  /\ Track

\* the first run is stopped at a day boundary and a second LiveSim is
\* constructed from the same seed and the same initial population
Restart ==
  /\ twin.run = 1
  /\ twin.trace # <<>>
  /\ \/ pc = <<"decide", 1>> /\ step_in_day = 0
     \/ pc = <<"newday", 0>>
  /\ population' = twin.start[1]
  /\ food' = twin.start[2]
  /\ food_id' = twin.start[3]
  /\ day' = twin.start[4]
  /\ step_in_day' = twin.start[5]
  /\ next_id' = twin.start[6]
  /\ next_species_id' = twin.start[7]
  /\ lineage' = twin.start[8]
  /\ snapshot' = twin.start[9]
  /\ velocities' = twin.start[10]
  /\ survivors' = twin.start[11]
  /\ repro_orders' = twin.start[12]
  /\ new_pop' = twin.start[13]
  /\ pc' = twin.start[14]
  /\ last' = twin.start[15]
  /\ rng' = twin.start[16]
  /\ twin' = [twin EXCEPT !.run = 2]
  /\ species_seen' = SpeciesIds(twin.start[1])
  /\ ids_seen' = Ids(twin.start[1])
  /\ UNCHANGED n_food

NextSeeded ==
  \/ Construct
  \/ Restart
  \/ \E i \in 1..MaxPop : Decide(i)
  \/ \E k \in 1..MaxPop : Apply(k)
  \/ \E i \in 1..MaxPop : Prey(i)
  \/ \E i \in 1..MaxPop : Food(i)
  \/ Select
  \/ \E k \in 1..MaxPop : Repro(k)
  \/ NewDay
  \/ Reseed

SpecSeeded == InitSeeded /\ [][NextSeeded]_vars

ParentSizes == {5, 10}

ParentSenses == {2, 5}

Parents ==
  {c \in EndOfDayCreatures : c.alive /\ c.at = <<2, 2>> /\ c.eaten >= 1 /\ c.hungry_streak = 0}

InitRepro ==
  /\ \E n \in 1..2 : \E cs \in [1..n -> Parents], sz \in [1..n -> ParentSizes],
                        sn \in [1..n -> ParentSenses] :
       population = [k \in 1..n |->
                       [EndOfDayCreature(k, cs[k]) EXCEPT !.size = sz[k], !.sense = sn[k]]]
  /\ food = <<>>
  /\ Elsewhere(1, DaySteps, <<"select", 0>>)

NextRepro ==
  \/ Select
  \/ \E k \in 1..MaxPop : Repro(k)

SpecRepro == InitRepro /\ [][NextRepro]_vars

\* the largest relative drift of speed, size and sense is below the threshold
BelowThreshold(parent, child) ==
  /\ 100 * Abs(child.speed - parent.speed) < SpeciationThresholdPct * parent.speed
  /\ 100 * Abs(child.size - parent.size) < SpeciationThresholdPct * parent.size
  /\ 100 * Abs(child.sense - parent.sense) < SpeciationThresholdPct * parent.sense

\* C12: whatever the draws, reproduce_N_children gives a child the species of
\* its parent (the same record) when the largest relative drift of its speed,
\* size and sense is below the speciation threshold, and otherwise a species
\* of an id that neither the parent nor another child of the call has; the
\* events reported are exactly one <<parent species, child species>> per
\* child that founds a species, in the order of the children.
C12_SpeciesOfChildren ==
  \A k \in DOMAIN repro_orders :
    pc = <<"repro", k>> =>
      LET parent == population[repro_orders[k][1]]
          n == repro_orders[k][2]
      IN \A draws \in [1..n -> ChildDraws] :
           LET r == reproduce_N_children(parent, draws, next_id, next_species_id)
               founders == {j \in 1..n : ~BelowThreshold(parent, r.children[j])}
           IN /\ Len(r.children) = n
              /\ \A j \in (1..n) \ founders : r.children[j].species = parent.species
              /\ \A j \in founders :
                   /\ r.children[j].species.id # parent.species.id
                   /\ \A i \in (1..n) \ {j} :
                        r.children[i].species.id # r.children[j].species.id
              /\ Len(r.events) = Cardinality(founders)
              /\ \A e \in DOMAIN r.events :
                   \E j \in founders :
                     /\ Cardinality({i \in founders : i < j}) = e - 1
                     /\ r.events[e] = <<parent.species, r.children[j].species>>

\* a call has made two children of one parent, one whose drift is exactly
\* the threshold and founds a species, one that keeps the parent's species
C12_Witness ==
  /\ last.kind = "repro"
  /\ last.info = "speciation"
  /\ \E i, j \in DOMAIN new_pop :
       LET parent == population[last.who]
       IN /\ new_pop[i].id >= next_id - 2
          /\ new_pop[j].id >= next_id - 2
          /\ new_pop[i].species = parent.species
          /\ new_pop[j].species.id # parent.species.id
          /\ new_pop[i].id # parent.id
          /\ 100 * Abs(new_pop[j].sense - parent.sense) = SpeciationThresholdPct * parent.sense
          /\ 100 * Abs(new_pop[j].size - parent.size) <= SpeciationThresholdPct * parent.size


(***************************************************************************)
(* A run that dies out.  The end of day 1 of a LiveSim constructed with    *)
(* three creatures, one of each seed species (ids 1, 2, 3), none of which  *)
(* comes through the selection, and with two food items per day: the next  *)
(* step call finds the population empty and reseeds.                       *)
(***************************************************************************)
ExtinctFood == 2

\* dead, or alive and fed but away from home at the end of the day
Doomed ==
  {c \in EndOfDayCreatures :
     /\ c.hungry_streak = 0 /\ c.kills = 0
     /\ \/ ~c.alive /\ c.eaten = 0 /\ c.at = <<2, 3>>
        \/ c.alive /\ c.eaten = 1 /\ c.at = <<2, 4>> /\ c.sp.diet # "carnivore"}

InitExtinct ==
  /\ \E cs \in [1..3 -> Doomed] :
       /\ \A k \in 1..3 : cs[k].sp.id = k
       /\ population = [k \in 1..3 |-> EndOfDayCreature(k, cs[k])]
  /\ food = <<>>
  /\ n_food = ExtinctFood
  /\ food_id = ExtinctFood
  /\ day = 1
  /\ step_in_day = DaySteps
  /\ next_id = MaxOf(Ids(population)) + 1
  /\ next_species_id = MaxOf(SpeciesIds(population)) + 1
  /\ lineage = RegisterRoots(<<>>, [k \in DOMAIN population |-> population[k].species], 1, 1)
  /\ snapshot = <<>>
  /\ velocities = <<>>
  /\ survivors = <<>>
  /\ repro_orders = <<>>
  /\ new_pop = <<>>
  /\ pc = <<"select", 0>>
  /\ last = NoLast
  /\ rng = Unseeded
  /\ twin = NoTwin
  /\ species_seen = SpeciesIds(population)
  /\ ids_seen = Ids(population)

SpecExtinct == InitExtinct /\ [][Next]_vars

\* the ids of the species founded by the k-th step of the offspring loop:
\* those of the children that do not have the species of their parent
Founded(k) ==
  {new_pop'[j].species.id : j \in {i \in (Len(new_pop) + 1)..Len(new_pop') :
     new_pop'[i].species # population[repro_orders[k][1]].species}}

\* C13 as stated: the id of a newly founded species has never been used
\* before in the run, by an initial species, an earlier speciation or an
\* extinct species, also on days that follow an emergency reseed.
C13_AsStated ==
  [][\A k \in 1..MaxPop :
       (pc = <<"repro", k>> /\ pc' # pc) => Founded(k) \cap species_seen = {}]_vars

\* C13: the id of a newly founded species is new to the lineage tracker and
\* to the population, that is, new since the construction of the LiveSim or
\* since its last emergency reseed; the reseed sets the next species id back
\* to 3, below ids used before it.
C13_FreshSinceReseed ==
  [][\A k \in 1..MaxPop :
       (pc = <<"repro", k>> /\ pc' # pc) =>
         /\ Founded(k) \cap (DOMAIN lineage \cup SpeciesIds(population) \cup SpeciesIds(new_pop)) = {}
         /\ \A i, j \in DOMAIN new_pop' :
              (i # j /\ new_pop'[i].species.id = new_pop'[j].species.id
                 /\ new_pop'[i].species.id \in Founded(k)) =>
                new_pop'[i].species = new_pop'[j].species]_vars

\* after a reseed a child has founded a species under id 3, the id of the
\* carnivores the run started with
C13_Witness ==
  /\ last.kind = "repro"
  /\ last.info = "speciation"
  /\ next_species_id = 4
  /\ 3 \in SpeciesIds(new_pop)
  /\ lineage[1].birth_day = 2
  /\ 3 \in species_seen


\* C14: after construction and after every day boundary, a reseed included,
\* every species of a creature of the population has a node in the lineage
\* tracker, and so has every species of the next generation when
\* update_from_population is about to count it: the lookup of a species
\* without a node (KeyError) never happens.
C14_EverySpeciesHasNode ==
  /\ pc[1] # "KeyError"
  /\ ~ MissingNode(lineage, population)
  /\ pc = <<"newday", 0>> => ~ MissingNode(lineage, new_pop)

\* a day boundary has counted a creature of a species founded the day before
C14_Witness ==
  /\ last.kind = "newday"
  /\ pc = <<"decide", 1>>
  /\ \E k \in DOMAIN population :
       /\ population[k].species.id \notin SpeciesIds(snapshot)
       /\ lineage[population[k].species.id].parent_id # 0
       /\ lineage[population[k].species.id].birth_day = day
       /\ lineage[population[k].species.id].current_count >= 1


(***************************************************************************)
(* update_from_population on its own, over the day boundaries of a run:    *)
(* each boundary hands it the next generation, here any generation of at   *)
(* most two creatures of the species alive the day before and, possibly,   *)
(* of one species founded by the first of them (registered at the boundary *)
(* with birth_day = day + 1, as LiveSim.step does).                        *)
(***************************************************************************)
MaxCensusDay == 4

InitCensus ==
  /\ \E n \in 2..3 :
       population = [k \in 1..n |->
                       Creature(k, CHOOSE sp \in SeedSpecies : sp.id = k, 20, 5, 2, 0)]
  /\ food = <<>>
  /\ Elsewhere(1, 0, <<"census", 0>>)

\* the species a child of the first creature may found at this boundary
FoundedSpecies == Species(next_species_id, 16, 4, MinMetabolism, "herbivore")

\* LiveSim.step at the end of a day: population = new_pop, day += 1,
\* lineage.update_from_population(population, day)
Census ==
  /\ pc = <<"census", 0>>
  /\ population # <<>>
  /\ day < MaxCensusDay
  /\ \E n \in 0..2 :
       \E sps \in [1..n -> {population[k].species : k \in DOMAIN population} \cup {FoundedSpecies}] :
         LET gen == [k \in 1..n |-> Creature(next_id + k - 1, sps[k], 20, 5, 2, 0)]
             founded == \E k \in 1..n : sps[k] = FoundedSpecies
             events == IF founded THEN << <<population[1].species, FoundedSpecies>> >> ELSE <<>>
         IN /\ population' = gen
            /\ next_id' = next_id + n
            /\ next_species_id' = IF founded THEN next_species_id + 1 ELSE next_species_id
            /\ lineage' = update_from_population(RegisterEvents(lineage, events, 1, day + 1),
                                                 gen, day + 1)
            /\ last' = Last("census", 0, 0, IF founded THEN "speciation" ELSE "none")
  /\ day' = day + 1
  /\ snapshot' = population
  /\ UNCHANGED <<food, food_id, step_in_day, velocities, survivors, repro_orders, new_pop,
                 pc, rng>>
  /\ UNCHANGED n_food
  /\ Track

SpecCensus == InitCensus /\ [][Census]_vars

\* C15: update_from_population(creatures, day) sets the current_count of
\* every node to the number of the given creatures of its species; it sets
\* extinct_day = day for exactly the nodes that had no extinct_day, have
\* birth_day <= day and count 0; and a node whose extinct_day was set keeps
\* it in every later update.
C15_CountsAndExtinction ==
  [][last'.kind = "census" =>
       \A sid \in DOMAIN lineage' :
         LET cnt == Cardinality({k \in DOMAIN population' : population'[k].species.id = sid})
             had == IF sid \in DOMAIN lineage THEN lineage[sid].extinct_day ELSE 0
             node == lineage'[sid]
         IN /\ node.current_count = cnt
            /\ had # 0 => node.extinct_day = had
            /\ had = 0 => (node.extinct_day = day' <=> (node.birth_day <= day' /\ cnt = 0))
            /\ had = 0 => node.extinct_day \in {0, day'}]_vars

\* an update has marked one species extinct and left alone the extinct_day
\* of a species that had died out at an earlier boundary
C15_Witness ==
  /\ last.kind = "census"
  /\ \E s, t \in DOMAIN lineage :
       /\ lineage[s].extinct_day # 0
       /\ lineage[s].extinct_day < day
       /\ lineage[t].extinct_day = day
       /\ lineage[t].current_count = 0
  /\ \E u \in DOMAIN lineage : lineage[u].current_count = 2


\* the square of v (cells per time unit) is at most the square of the
\* creature's effective speed: speed (tenths) times the injury multiplier
\* (tenths) while injury_days_left > 0, speed otherwise
WithinEffectiveSpeed(c, v, t) ==
  IF c.injury_days_left > 0
  THEN 10000 * (v[1] * v[1] + v[2] * v[2])
         <= (c.speed * c.injury_speed_mult * t) * (c.speed * c.injury_speed_mult * t)
  ELSE 100 * (v[1] * v[1] + v[2] * v[2]) <= (c.speed * t) * (c.speed * t)

\* C16: in the apply phase of every tick, the velocity applied to a living
\* creature has a magnitude of at most the creature's effective speed (speed
\* times the injury multiplier while injury_days_left > 0, speed otherwise),
\* and the creature's displacement in the tick is at most effective speed
\* times dt.
C16_SpeedLimit ==
  [][\A k \in 1..MaxPop :
       (pc = <<"apply", k>> /\ pc' # pc) =>
         LET i == IdMap(population, velocities[k][1])
             me == population[i]
             moved == <<population'[i].x - me.x, population'[i].y - me.y>>
         IN me.alive =>
              /\ WithinEffectiveSpeed(me, velocities[k][2], 1)
              /\ WithinEffectiveSpeed(me, moved, Dt)]_vars

\* an injured creature has been moved, by less than its uninjured speed allows
C16_Witness ==
  /\ last.kind = "apply"
  /\ last.info = "applied"
  /\ LET me == population[last.who]
         v == velocities[pc[2] - 1][2]
     IN /\ pc[1] = "apply"
        /\ me.alive
        /\ me.injury_days_left > 0
        /\ v # <<0, 0>>
        /\ 100 * (v[1] * v[1] + v[2] * v[2]) < me.speed * me.speed


\* the end-of-day part of a step call
EndOfDayPhases == {"select", "repro", "newday"}

\* C17: a day is exactly day_steps ticks.  step_in_day is 0 after the day
\* reset and changes only by rising by one at the end of a tick or by going
\* back to 0 at a reset; the end-of-day part of step runs when, and only
\* when, step_in_day has reached day_steps, and runs in this order, each
\* part once: selection, then the next generation (the survivors, then the
\* offspring appended order by order), then day += 1 with the lineage update
\* from the new population and the reset of world and creatures.
C17_DayOfDaySteps ==
  [][/\ (pc[1] \in EndOfDayPhases) <=> (step_in_day = DaySteps)
     /\ step_in_day' # step_in_day =>
          \/ /\ step_in_day' = step_in_day + 1
             /\ pc[1] \in {"prey", "food"} /\ pc[2] = Len(population)
             /\ pc' \in {<<"decide", 1>>, <<"select", 0>>}
          \/ /\ step_in_day' = 0
             /\ pc = <<"newday", 0>>
     /\ (pc[1] \in {"prey", "food"} /\ pc'[1] \notin {"prey", "food"}) =>
          step_in_day' = step_in_day + 1
     /\ pc = <<"select", 0>> =>
          /\ pc' \in {<<"repro", 1>>, <<"newday", 0>>}
          /\ new_pop' = [k \in DOMAIN survivors' |-> Rebuilt(population'[survivors'[k]])]
          /\ day' = day /\ lineage' = lineage
     /\ pc[1] = "repro" =>
          /\ pc' \in {<<"repro", pc[2] + 1>>, <<"newday", 0>>}
          /\ Len(new_pop') = Len(new_pop) + repro_orders[pc[2]][2]
          /\ SubSeq(new_pop', 1, Len(new_pop)) = new_pop
          /\ day' = day /\ population' = population
     /\ pc = <<"newday", 0>> =>
          /\ pc' = <<"decide", 1>>
          /\ day' = day + 1
          /\ Len(population') = Len(new_pop)
          /\ \A k \in DOMAIN new_pop : population'[k].id = new_pop[k].id
          /\ lineage' = update_from_population(lineage, population', day')
          /\ step_in_day' = 0
          /\ Len(food') = n_food
          /\ \A k \in DOMAIN population' :
               population'[k].eaten = 0 /\ population'[k].alive
                 /\ population'[k].energy = BaseEnergy]_vars

\* a day boundary after day_steps ticks has started day 2 with a survivor
\* followed by its offspring
C17_Witness ==
  /\ last.kind = "newday"
  /\ day = 2
  /\ step_in_day = 0
  /\ Len(population) = 2
  /\ population[1].id \in Ids(snapshot)
  /\ population[2].id \notin Ids(snapshot)


(***************************************************************************)
(* The headless run (main.py run): the part of the loop body after         *)
(* simulate_day, from the end of a day of one or two creatures to the      *)
(* population handed to the next simulate_day.                             *)
(***************************************************************************)
HeadlessEnds ==
  {c \in EndOfDayCreatures :
     /\ c.hungry_streak = 0 /\ c.kills = 0 /\ c.eaten <= 2
     /\ c.at \in {<<2, 2>>, <<2, 4>>}}

InitHeadless ==
  /\ \E n \in 1..2 : \E cs \in [1..n -> HeadlessEnds] :
       /\ \A k \in 1..n : cs[k].sp.id = k
       /\ population = [k \in 1..n |-> EndOfDayCreature(k, cs[k])]
  /\ food = <<>>
  /\ food_id = NFood
  /\ n_food = NFood
  /\ day = 1
  /\ step_in_day = DaySteps
  /\ next_id = MaxOf(Ids(population)) + 1
  /\ next_species_id = MaxOf(SpeciesIds(population)) + 1
  /\ lineage = <<>>
  /\ snapshot = <<>>
  /\ velocities = <<>>
  /\ survivors = <<>>
  /\ repro_orders = <<>>
  /\ new_pop = <<>>
  /\ pc = <<"headless", 0>>
  /\ last = NoLast
  /\ rng = Unseeded
  /\ twin = NoTwin
  /\ species_seen = SpeciesIds(population)
  /\ ids_seen = Ids(population)

\* init_population(n, start_id, seed), n the length of p
init_population(p, start_id) ==
  [k \in DOMAIN p |-> Creature(start_id + k - 1, p[k].sp, p[k].speed, p[k].size, p[k].sense, 0)]

\* the offspring loop of run, from order k on
RECURSIVE HeadlessOffspring(_, _, _, _, _, _)
HeadlessOffspring(pop, orders, k, draws, cid, sid) ==
  IF k > Len(orders)
  THEN [children |-> <<>>, next_creature_id |-> cid, next_species_id |-> sid]
  ELSE LET r == reproduce_N_children(pop[orders[k][1]], draws[k], cid, sid)
           rest == HeadlessOffspring(pop, orders, k + 1, draws,
                                     r.next_creature_id, r.next_species_id)
       IN [children |-> r.children \o rest.children,
           next_creature_id |-> rest.next_creature_id,
           next_species_id |-> rest.next_species_id]

\* run, the loop body after simulate_day: selection, survivors rebuilt,
\* offspring, and init_population when the new population is empty
HeadlessDayEnd ==
  /\ pc = <<"headless", 0>>
  /\ day < MaxDay
  /\ LET r == end_of_day_selection(population)
         rebuilt == [k \in DOMAIN r.survivors |-> Rebuilt(r.pop[r.survivors[k]])]
     IN \E draws \in {d \in [DOMAIN r.repro_orders ->
                               UNION {[1..n -> ChildDraws] : n \in 1..2}] :
                        \A k \in DOMAIN r.repro_orders :
                          DOMAIN d[k] = 1..r.repro_orders[k][2]} :
          LET o == HeadlessOffspring(r.pop, r.repro_orders, 1, draws, next_id, next_species_id)
              new_population == rebuilt \o o.children
          IN /\ Len(new_population) <= MaxPop
             /\ snapshot' = r.pop
             /\ IF new_population = <<>>
                THEN \E p \in (IF rng.seed = 0 THEN InitialPopulations
                               ELSE {NthOf(InitialPopulations,
                                           (Mix(rng.seed, 0) % Cardinality(InitialPopulations)) + 1)}) :
                       /\ population' = init_population(p, o.next_creature_id)
                       /\ next_id' = MaxOf(Ids(population')) + 1
                       /\ next_species_id' = MaxOf(SpeciesIds(population')) + 1
                       /\ rng' = IF rng.seed = 0 THEN rng ELSE [rng EXCEPT !.n = 1]
                       /\ last' = Last("headless", 0, 0, "init_population")
                ELSE /\ population' = new_population
                     /\ next_id' = o.next_creature_id
                     /\ next_species_id' = o.next_species_id
                     /\ Advance(Len(r.repro_orders))
                     /\ last' = Last("headless", 0, 0, "none")
  /\ day' = day + 1
  /\ pc' = <<"simulate_day", 0>>
  /\ UNCHANGED <<food, food_id, step_in_day, lineage, velocities, survivors, repro_orders,
                 new_pop>>
  /\ UNCHANGED n_food
  /\ Track

\* runs whose population dies out: LiveSim, and the headless run
InitEmptied == InitExtinct \/ InitHeadless

NextEmptied ==
  \/ \E i \in 1..MaxPop : Decide(i)
  \/ \E k \in 1..MaxPop : Apply(k)
  \/ \E i \in 1..MaxPop : Prey(i)
  \/ \E i \in 1..MaxPop : Food(i)
  \/ Select
  \/ \E k \in 1..MaxPop : Repro(k)
  \/ NewDay
  \/ Reseed
  \/ HeadlessDayEnd

SpecEmptied == InitEmptied /\ [][NextEmptied]_vars

\* the creatures of pop have pairwise distinct ids
DistinctIds(pop) == \A i, j \in DOMAIN pop : pop[i].id = pop[j].id => i = j

\* C18: an empty population at a day boundary neither halts nor fails the
\* simulation.  In LiveSim the boundary itself goes through (no KeyError),
\* the next step is enabled and installs the default population, non-empty,
\* of pairwise distinct ids and of species that all have lineage nodes, and
\* starts a day (food spawned, creatures reset, step_in_day 0), whose first
\* tick can then be taken; the headless run replaces an empty new population
\* by init_population before the next day.
C18_EmptyPopulationRecovers ==
  /\ [](/\ pc[1] # "KeyError"
        /\ (population = <<>> /\ pc = <<"decide", 1>>) => ENABLED Reseed
        /\ (pc = <<"newday", 0>> /\ new_pop = <<>> /\ day < MaxDay) => ENABLED NewDay
        /\ pc = <<"simulate_day", 0>> => population # <<>>)
  /\ [][/\ (population = <<>> /\ pc = <<"decide", 1>>) =>
             /\ Len(population') = ReseedCount
             /\ DistinctIds(population')
             /\ ~ MissingNode(lineage', population')
             /\ \A k \in DOMAIN population' :
                  population'[k].alive /\ population'[k].energy = BaseEnergy
             /\ Len(food') = n_food
             /\ step_in_day' = 0
             /\ pc' = <<"decide", 1>>
        /\ (pc = <<"headless", 0>> /\ last'.info = "init_population") =>
             /\ Len(population') = InitPop
             /\ DistinctIds(population')
             /\ \A k \in DOMAIN population' : population'[k].id >= next_id
             /\ day' = day + 1]_vars

\* the first creature of a reseeded LiveSim population has taken its decision
C18_Witness ==
  /\ last.kind = "decide"
  /\ last.who = 1
  /\ day = 2
  /\ step_in_day = 0
  /\ Len(population) = ReseedCount
  /\ snapshot # <<>>
  /\ \A k \in DOMAIN snapshot : snapshot[k].id <= 3 /\ ~ snapshot[k].alive
  /\ lineage[1].birth_day = 2


\* C19 as stated: in a tick no food item is consumed before all the attacks
\* of the tick are resolved, so that a creature killed as prey in a tick has
\* consumed no food in that tick; in particular no attack is resolved right
\* after the creature before the attacker has consumed a food item, and the
\* prey killed is not that creature.
C19_AsStated ==
  [][(last.kind = "food" /\ last.info = "eaten" /\ last'.kind = "prey") =>
       /\ last'.info \notin {"kill", "fail"}
       /\ ~ (last'.info = "kill" /\ last'.target = last.who)]_vars

\* C19: in a tick the creatures take their turns in list order, and in its
\* turn a creature's predation is resolved before its own food consumption:
\* _consume_food_if_reached of a creature directly follows its own
\* _consume_prey_if_reached, and a creature that is dead when its food turn
\* comes (killed as prey by a creature earlier in the list, or in its own
\* failed attack) consumes nothing.  A creature killed by a creature later
\* in the list may have consumed food earlier in the same tick.
C19_OwnPredationFirst ==
  [][\A i \in 1..MaxPop :
       pc = <<"food", i>> =>
         /\ last.kind = "prey" /\ last.who = i
         /\ last'.kind = "food" /\ last'.who = i
         /\ last'.info = "eaten" =>
              /\ population[i].alive
              /\ population'[i].eaten = population[i].eaten + 1
         /\ ~ population[i].alive => (food' = food /\ population' = population)]_vars

\* a herbivore, first in the list, has consumed the food item of its cell
\* and has then been killed in the same tick by the creature after it
C19_Witness ==
  /\ last.kind = "prey"
  /\ last.info = "kill"
  /\ last.who = 2
  /\ last.target = 1
  /\ population[1].species.diet = "herbivore"
  /\ population[1].eaten = 1
  /\ population[1].prey_kills_today = 0
  /\ ~ population[1].alive
  /\ food = <<>>


\* C20: a creature whose energy reaches <= 0 in the apply phase of a tick
\* dies there and is not moved: its position stays what it was before the
\* tick.  In the interaction phase of that tick it does not attack, consumes
\* no food and is not chosen as prey: nothing of it changes any more, so
\* its death has the one cause.
C20_ExhaustedDiesInPlace ==
  [][/\ \A k \in 1..MaxPop :
          (pc = <<"apply", k>> /\ pc' # pc) =>
            LET i == IdMap(population, velocities[k][1])
                me == population[i]
            IN (me.alive /\ population'[i].energy <= 0) =>
                 /\ ~ population'[i].alive
                 /\ population'[i].x = me.x /\ population'[i].y = me.y
                 /\ population'[i] = [me EXCEPT !.energy = population'[i].energy,
                                                !.alive = FALSE]
     /\ \A i \in DOMAIN population :
          (pc[1] \in {"prey", "food"} /\ ~ population[i].alive) =>
            /\ i \in DOMAIN population' /\ population'[i] = population[i]
            /\ pc[2] = i => (food' = food /\ population' = population
                             /\ last'.target = 0)
            /\ last'.kind = "prey" => last'.target # i]_vars

\* a creature has run out of energy in the apply phase with a velocity that
\* would have moved it, and the interaction phase has passed over it
C20_Witness ==
  /\ last.kind \in {"prey", "food"}
  /\ \E i \in DOMAIN population :
       /\ ~ population[i].alive
       /\ population[i].energy <= 0
       /\ \E k \in DOMAIN velocities :
            velocities[k][1] = population[i].id /\ velocities[k][2] # <<0, 0>>
       /\ pc[1] \in {"prey", "food"} /\ pc[2] > i


\* the center of the arena
Center == <<Width \div 2, Height \div 2>>

\* C21: when a day has been started, every herbivore stands at a point on an
\* edge of the arena (x in {0, width} or y in {0, height}), every carnivore
\* and omnivore stands at or near the center (within the ring radius of it),
\* and the home of every creature is the point it was placed at.
C21_PlacedByDiet ==
  DayStarted =>
    \A k \in DOMAIN population :
      LET c == population[k]
      IN /\ c.home = <<c.x, c.y>>
         /\ IF c.species.diet = "herbivore"
            THEN c.x \in {0, Width} \/ c.y \in {0, Height}
            ELSE Dist2(c.x, c.y, Center[1], Center[2]) <= CenterRingRadius * CenterRingRadius


(***************************************************************************)
(* step_behavior on its own: the velocities loop of the second tick of a   *)
(* day, over two creatures that stand anywhere around the center, each     *)
(* with its home on the ring, committed to going home or not; the second   *)
(* may have died in the first tick.                                        *)
(***************************************************************************)
\* where a creature may stand in the second tick
MidDayPoints == {<<1, 2>>, <<2, 2>>, <<3, 2>>, <<3, 3>>, <<4, 2>>}

MidDayCreatures ==
  [sp : SeedSpecies, size : Sizes, at : MidDayPoints, ang : Angles,
   going_home : BOOLEAN, alive : BOOLEAN]

MidDayCreature(id, c) ==
  [Creature(id, c.sp, 20, c.size, 2, 0)
     EXCEPT !.home = predator_center_point(c.ang), !.x = c.at[1], !.y = c.at[2],
            !.going_home = c.going_home, !.alive = c.alive,
            !.energy = BaseEnergy - EnergyLossOnFail]

InitBehave ==
  /\ \E a \in {c \in MidDayCreatures : c.alive}, b \in MidDayCreatures :
       population = <<MidDayCreature(1, a), MidDayCreature(2, b)>>
  /\ food = <<>>
  /\ Elsewhere(1, 1, <<"decide", 1>>)

NextBehave == \E i \in 1..MaxPop : Decide(i)

SpecBehave == InitBehave /\ [][NextBehave]_vars

\* the living peers of creature i of at least 1.2 times its size within its
\* flee radius
BigPeers(i) ==
  LET me == population[i]
      r_pred == sense_radii(me)[2]
  IN {j \in DOMAIN population \ {i} :
        /\ population[j].alive
        /\ 10 * population[j].size >= 12 * me.size
        /\ 10000 * Dist2(population[j].x, population[j].y, me.x, me.y) <= r_pred * r_pred}

\* the velocity decided for creature i points straight away from one of the
\* nearest of its big peers, at its effective speed
FleesNearest(i) ==
  \E p \in BigPeers(i) :
    LET me == population[i]
        away == <<me.x - population[p].x, me.y - population[p].y>>
        v == velocities'[i][2]
    IN /\ \A q \in BigPeers(i) :
            Dist2(population[p].x, population[p].y, me.x, me.y)
              <= Dist2(population[q].x, population[q].y, me.x, me.y)
       /\ v = mul(unit(away[1], away[2]), effective_speed(me))
       /\ v[1] * away[1] >= 0 /\ v[2] * away[2] >= 0

\* the velocity decided for creature i points from it to its home, at its
\* effective speed
HeadsHome(i) ==
  LET me == population[i]
  IN velocities'[i][2] = mul(unit(me.home[1] - me.x, me.home[2] - me.y), effective_speed(me))

\* the distance of creature i to its home, in hundredths of a cell
DistHome100(i) ==
  Hypot100(population[i].home[1] - population[i].x, population[i].home[2] - population[i].y)

EarlierInjuries == {<<0, 10>>, <<InjuryDaysMin, InjurySpeedMultHi>>, <<InjuryDaysMax, InjurySpeedMultLo>>}

InitAttack ==
  /\ \E a \in MeetingCreatures, inj \in EarlierInjuries,
        b \in {c \in MeetingCreatures : c.kills = 0 /\ c.energy = BaseEnergy} :
       population = <<[MeetingCreature(1, a) EXCEPT !.injury_days_left = inj[1],
                                                     !.injury_speed_mult = inj[2]],
                      MeetingCreature(2, b)>>
  /\ food \in {<<>>, <<[x |-> 2, y |-> 2, id |-> NFood + 1]>>}
  /\ Elsewhere(2, 1, <<"prey", 1>>)

SpecAttack == InitAttack /\ [][NextInteract]_vars

\* C23: a failed attack takes the fixed energy penalty from the predator and
\* leaves the prey as it was; if the predator's energy is then <= 0 it is
\* dead and nothing else of it has changed (no injury, no counterattack);
\* otherwise an injury never lowers injury_days_left and, on a predator
\* that is already injured, never raises injury_speed_mult; and the
\* predator dies with energy left only when the prey has at least 1.2
\* times its size.
C23_FailedAttack ==
  [][\A i \in DOMAIN population :
       (pc = <<"prey", i>> /\ last'.info = "fail") =>
         LET pred == population[i]
             prey == population[last'.target]
             after == population'[i]
         IN /\ after.energy = pred.energy - EnergyLossOnFail
            /\ population'[last'.target] = prey
            /\ after.energy <= 0 =>
                 after = [pred EXCEPT !.energy = after.energy, !.alive = FALSE]
            /\ after.injury_days_left >= pred.injury_days_left
            /\ after.injury_speed_mult <= pred.injury_speed_mult
            /\ (after.energy > 0 /\ ~ after.alive) => 10 * prey.size >= 12 * pred.size
            /\ after = [pred EXCEPT !.energy = after.energy, !.alive = after.alive,
                                    !.injury_days_left = after.injury_days_left,
                                    !.injury_speed_mult = after.injury_speed_mult]]_vars

\* a predator with a two-day injury at multiplier 0.6 has failed again and
\* lives: whatever injury the failure drew, it keeps two days and 0.6
C23_Witness ==
  /\ last.kind = "prey"
  /\ last.info = "fail"
  /\ last.who = 1
  /\ population[1].alive
  /\ population[1].energy = BaseEnergy - EnergyLossOnFail
  /\ population[1].injury_days_left = InjuryDaysMax
  /\ population[1].injury_speed_mult = InjurySpeedMultLo


(***************************************************************************)
(* The end-of-day snapshot and its consumers: LiveSim from construction    *)
(* on, and the day end of the headless run.                                *)
(***************************************************************************)
InitSnapshot == Init \/ InitHeadless

NextSnapshot ==
  \/ Next
  \/ HeadlessDayEnd

SpecSnapshot == InitSnapshot /\ [][NextSnapshot]_vars

\* the values of a record that the day reset writes
ResetFields(c) == <<c.eaten, c.alive, c.energy, c.x, c.y, c.prey_kills_today>>

\* C24: the snapshot of the end of a day (last_population_snapshot of
\* LiveSim, the population the headless run summarises) is taken after the
\* selection: record by record it is the population of the last tick with
\* the verdict of the selection (dead exactly when the creature was dead or
\* failed the starvation or the home gate); and no later step, the reset of
\* the next day included, changes the eaten, alive, energy, position or
\* prey_kills_today of a record of the snapshot.
C24_SnapshotAfterSelection ==
  [][/\ pc[1] \in {"select", "headless"} =>
          /\ Len(snapshot') = Len(population)
          /\ \A k \in DOMAIN population :
               LET c == population[k]
                   s == snapshot'[k]
               IN /\ s.id = c.id
                  /\ s.alive <=> PassesGates(c)
                  /\ <<s.eaten, s.energy, s.x, s.y, s.prey_kills_today>>
                       = <<c.eaten, c.energy, c.x, c.y, c.prey_kills_today>>
     /\ pc = <<"select", 0>> =>
          /\ snapshot' = population'
          /\ \A k \in DOMAIN snapshot' : snapshot'[k].alive <=> snapshot'[k].id \in Ids(new_pop')
     /\ pc[1] \notin {"select", "headless"} =>
          /\ Len(snapshot') = Len(snapshot)
          /\ \A k \in DOMAIN snapshot : ResetFields(snapshot'[k]) = ResetFields(snapshot[k])]_vars

\* the next day has been started with a survivor reset to the day-start
\* values, and the snapshot still shows what that survivor had eaten and the
\* energy it had left
C24_Witness ==
  /\ last.kind = "newday"
  /\ pc = <<"decide", 1>>
  /\ \E j \in DOMAIN snapshot, k \in DOMAIN population :
       /\ snapshot[j].id = population[k].id
       /\ snapshot[j].alive
       /\ snapshot[j].eaten >= 1
       /\ snapshot[j].energy < BaseEnergy
       /\ population[k].eaten = 0
       /\ population[k].energy = BaseEnergy
  /\ \E j \in DOMAIN snapshot : ~ snapshot[j].alive


(***************************************************************************)
(* Natural Selection 2.0 (src/ns_sim_2_0, src/ns_sim_2.0): the same World  *)
(* and Creature as evo_sim, one species, and its own step_behavior.  The   *)
(* velocities loop of LiveSimNS._step_once in the second tick of a day,    *)
(* over two creatures that have eaten 0, 1 or 2 items.                     *)
(***************************************************************************)
\* live_ns.py, main.py: the one species of NS 2.0
NSSpecies == Species(1, 0, 0, 20, "omnivore")

\* _nearest_edge_target(x, y): <<tx, ty, dist>>, the first of the closest
\* of the four edge points left, right, bottom, top
nearest_edge_target(x, y) ==
  LET cands == << <<0, y>>, <<Width, y>>, <<x, 0>>, <<x, Height>> >>
      d2 == [k \in 1..4 |-> Dist2(cands[k][1], cands[k][2], x, y)]
      best == CHOOSE k \in 1..4 : \A j \in 1..4 : d2[k] < d2[j] \/ (d2[k] = d2[j] /\ k <= j)
  IN <<cands[best][1], cands[best][2], Hypot100(cands[best][1] - x, cands[best][2] - y)>>

\* ns_sim_2_0 behaviors_ns.step_behavior(world, me, others, dt, steps_left);
\* turn is the sign of 0.5 - (hash((id, x, y)) & 1), in eighths of a turn
step_behavior_ns(fd, i, others, steps_left, turn) ==
  LET me == others[i]
      eff == effective_speed(me)
      r_food == me.sense * SenseFoodScale100
      edge == nearest_edge_target(me.x, me.y)
      gh == \/ me.going_home
            \/ me.eaten >= 2
            \/ (me.eaten = 1 /\ StepGate(edge[3], eff, steps_left, 92))
      f == nearest_food_within(fd, me.x, me.y, r_food)
  IN IF ~me.alive THEN Decision(<<0, 0>>, me.going_home, me.heading, "dead")
     ELSE IF gh
     THEN Decision(mul(unit(edge[1] - me.x, edge[2] - me.y), eff), gh, me.heading, "home")
     ELSE IF f # 0
     THEN Decision(mul(unit(fd[f].x - me.x, fd[f].y - me.y), eff), gh, me.heading, "forage")
     ELSE LET hd == (me.heading + turn * Dt) % 8
              vmag == (WanderSpeedPct * eff) \div 100
          IN Decision(<<Trunc(Cos100(hd) * vmag, 1000), Trunc(Sin100(hd) * vmag, 1000)>>,
                      gh, hd, "wander")

\* where a creature of NS 2.0 may stand in the second tick
NSPoints == {<<0, 2>>, <<1, 2>>, <<2, 2>>, <<3, 2>>, <<3, 3>>, <<2, 4>>}

\* going_home is set only once something has been eaten
NSCreatures ==
  {c \in [at : NSPoints, ang : Angles, eaten : 0..2, going_home : BOOLEAN, alive : BOOLEAN] :
     c.going_home => c.eaten >= 1}

NSCreature(id, c) ==
  [Creature(id, NSSpecies, 20, 5, 2, 0)
     EXCEPT !.home = predator_center_point(c.ang), !.x = c.at[1], !.y = c.at[2],
            !.eaten = c.eaten, !.going_home = c.going_home, !.alive = c.alive,
            !.energy = BaseEnergy - EnergyLossOnFail]

InitNS ==
  /\ \E a \in {c \in NSCreatures : c.alive}, b \in NSCreatures :
       population = <<NSCreature(1, a), NSCreature(2, b)>>
  /\ food \in {<<>>, <<[x |-> 2, y |-> 3, id |-> NFood + 1]>>}
  /\ Elsewhere(1, 1, <<"decide", 1>>)

\* LiveSimNS._step_once, the velocities loop, for creature i
DecideNS(i) ==
  /\ pc = <<"decide", i>>
  /\ i \in DOMAIN population
  /\ \E turn \in (IF step_behavior_ns(food, i, population, DaySteps - step_in_day, 0).branch
                     = "wander" THEN Drifts ELSE {0}) :
       LET me == population[i]
           d == step_behavior_ns(food, i, population, DaySteps - step_in_day, turn)
           v == clamp_speed(d.v, effective_speed(me))
       IN /\ velocities' = Append(velocities, <<me.id, v>>)
          /\ population' = [population EXCEPT ![i].going_home = d.going_home,
                                              ![i].heading = d.heading]
          /\ last' = Last("decide", i, 0, d.branch)
  /\ pc' = IF i < Len(population) THEN <<"decide", i + 1>> ELSE <<"apply", 1>>
  /\ UNCHANGED <<food, food_id, day, step_in_day, next_id, next_species_id, lineage,
                 snapshot, survivors, repro_orders, new_pop, rng>>
  /\ UNCHANGED n_food
  /\ Track

NextNS == \E i \in 1..MaxPop : DecideNS(i)

SpecNS == InitNS /\ [][NextNS]_vars

\* C25: in NS 2.0 a living creature that is going home is given a velocity
\* that points from its position to its recorded home, the point whose
\* distance the home gate of the selection (at_home) measures, at its
\* effective speed.
C25_HomewardInNS ==
  [][\A i \in DOMAIN population :
       (pc = <<"decide", i>> /\ population[i].alive /\ population'[i].going_home) =>
         LET me == population[i]
         IN /\ velocities'[i][2] = mul(unit(me.home[1] - me.x, me.home[2] - me.y),
                                       effective_speed(me))
            /\ at_home(me, 0) => velocities'[i][2] = <<0, 0>>]_vars


(***************************************************************************)
(* Creature ids over a run: LiveSim from construction on, and from the end *)
(* of a day that no creature survives (the reseed follows).                *)
(***************************************************************************)
InitIds == Init \/ InitExtinct

SpecIds == InitIds /\ [][Next]_vars

\* the children the offspring loop has just appended
NewChildren == SubSeq(new_pop', Len(new_pop) + 1, Len(new_pop'))

\* ids are carried as the code carries them: the copies of the survivors keep
\* the ids of the survivors, the day boundary installs the new population
\* as built, reproduce_N_children advances the next id by the number of
\* children it returns, and the id map of the apply phase leads from the
\* k-th velocity to the k-th creature, for which it was decided
IdsCarried ==
  /\ pc = <<"select", 0>> =>
       /\ Len(new_pop') = Len(survivors')
       /\ \A k \in DOMAIN survivors' : new_pop'[k].id = population[survivors'[k]].id
  /\ Boundary =>
       /\ Len(population') = Len(new_pop)
       /\ \A k \in DOMAIN new_pop : population'[k].id = new_pop[k].id
  /\ (pc[1] = "repro" /\ pc' # pc) =>
       /\ Len(NewChildren) = repro_orders[pc[2]][2]
       /\ next_id' = next_id + Len(NewChildren)
       /\ SubSeq(new_pop', 1, Len(new_pop)) = new_pop
  /\ (pc[1] = "apply" /\ pc' # pc) =>
       /\ velocities[pc[2]][1] = population[pc[2]].id
       /\ IdMap(population, velocities[pc[2]][1]) = pc[2]
       /\ \A j \in DOMAIN population \ {pc[2]} : population'[j] = population[j]

\* C26 as stated: in every population the ids are pairwise distinct, the
\* ids are carried as above, and every offspring gets an id never used
\* before in the run, also after an emergency reseed.
C26_AsStated ==
  /\ [](DistinctIds(population) /\ DistinctIds(new_pop))
  /\ [][/\ IdsCarried
        /\ (pc[1] = "repro" /\ pc' # pc) => Ids(NewChildren) \cap ids_seen = {}]_vars

\* C26: in every population (initial, after a day boundary, after a reseed)
\* and in every next population under construction the ids are pairwise
\* distinct and below the next creature id; the ids are carried as above;
\* and every offspring gets an id that no creature of the current or the
\* next population has, that is, an id new since the construction of the
\* LiveSim or since its last emergency reseed (the reseed hands out ids
\* from 1 again).
C26_DistinctIds ==
  /\ [](/\ DistinctIds(population) /\ DistinctIds(new_pop)
        /\ \A id \in Ids(population) \cup Ids(new_pop) : id < next_id)
  /\ [][/\ IdsCarried
        /\ (pc[1] = "repro" /\ pc' # pc) =>
             /\ Ids(NewChildren) \cap (Ids(population) \cup Ids(new_pop)) = {}
             /\ DistinctIds(NewChildren)
             /\ \A id \in Ids(NewChildren) : id >= next_id]_vars

\* after a reseed a child has been given id 3, the id of a creature of the
\* population that died out
C26_Witness ==
  /\ last.kind = "repro"
  /\ lineage[1].birth_day = 2
  /\ next_id = ReseedCount + 2
  /\ \E k \in DOMAIN new_pop :
       /\ new_pop[k].id = ReseedCount + 1
       /\ new_pop[k].id \notin Ids(population)
  /\ \E k \in DOMAIN snapshot : snapshot[k].id \in 1..ReseedCount
  /\ DistinctIds(new_pop)


\* the food items the creatures of pop have consumed: what they have eaten
\* less their kills
FoodEaten(pop) ==
  SumOver(DOMAIN pop, [k \in DOMAIN pop |-> pop[k].eaten - pop[k].prey_kills_today])

\* the ids of the food items in the world
FoodIds(fd) == {fd[k].id : k \in DOMAIN fd}

\* C27: food is conserved within a day: at every point of the day the items
\* left in the world and the items the creatures have consumed (eaten less
\* prey_kills_today) add up to the number spawned at the start of the day,
\* and the items in the world have distinct ids.  A food step removes at
\* most one item, exactly when its creature's eaten count goes up by one,
\* and changes no other creature; a predation step leaves the food alone
\* and credits at most one kill; and within a tick each creature has one
\* predation step followed by one food step, in list order.
C27_FoodConserved ==
  /\ []((InDay /\ population # <<>>) =>
          /\ Len(food) + FoodEaten(population) = n_food
          /\ Cardinality(FoodIds(food)) = Len(food))
  /\ [][/\ pc[1] = "food" =>
             /\ FoodIds(food') \subseteq FoodIds(food)
             /\ Len(food') = Len(food) - (IF last'.info = "eaten" THEN 1 ELSE 0)
             /\ population'[pc[2]].eaten = population[pc[2]].eaten + (Len(food) - Len(food'))
             /\ last'.info = "eaten" => last'.target \in FoodIds(food) \ FoodIds(food')
             /\ \A j \in DOMAIN population \ {pc[2]} : population'[j] = population[j]
             /\ pc' \in {<<"prey", pc[2] + 1>>, <<"decide", 1>>, <<"select", 0>>}
        /\ pc[1] = "prey" =>
             /\ food' = food
             /\ SumOver(DOMAIN population, [k \in DOMAIN population |->
                                              population'[k].prey_kills_today])
                  = SumOver(DOMAIN population, [k \in DOMAIN population |->
                                                  population[k].prey_kills_today])
                    + (IF last'.info = "kill" THEN 1 ELSE 0)
             /\ pc' \in {<<"food", pc[2]>>, <<"prey", pc[2] + 1>>, <<"decide", 1>>,
                         <<"select", 0>>}]_vars

\* two creatures that eat plants stand in one cell, the first has consumed
\* the one food item of the day there, and the second, in its food step of
\* the same tick, has found nothing
C27_Witness ==
  /\ last.kind = "food"
  /\ last.who = 2
  /\ last.info = "none"
  /\ food = <<>>
  /\ population[1].eaten - population[1].prey_kills_today = 1
  /\ population[2].alive
  /\ population[2].species.diet # "carnivore"
  /\ population[2].eaten = 0
  /\ <<population[1].x, population[1].y>> = <<population[2].x, population[2].y>>
  /\ <<population[1].x, population[1].y>> \in FoodPoints


(***************************************************************************)
(* A day from its start, or from its second tick with one creature away    *)
(* from home that an earlier tick may have committed to going home; the    *)
(* day's food is still in the world.                                       *)
(***************************************************************************)
InitLatch ==
  /\ \E a \in {c \in MidDayCreatures : c.alive} :
       population = <<MidDayCreature(1, a)>>
  /\ \E pts \in [1..NFood -> FoodPoints] : food = spawn_food_uniform(0, pts)
  /\ Elsewhere(1, 1, <<"decide", 1>>)

SpecLatch == (Init \/ InitLatch) /\ [][Next]_vars

\* C28: going_home is a one-way latch within a day: right after the reset
\* that starts a day it is false for every creature, and in every step that
\* is not the start of a new day a creature whose going_home is true keeps
\* it true (and the population keeps its creatures), so only the reset of
\* the next day clears it.
C28_GoingHomeLatch ==
  /\ [](DayStarted => \A k \in DOMAIN population : ~population[k].going_home)
  /\ [][(pc[1] \in TickPhases \cup {"select", "repro"} /\ population # <<>>) =>
          /\ DOMAIN population' = DOMAIN population
          /\ \A k \in DOMAIN population :
               population[k].going_home => population'[k].going_home]_vars

\* a creature has just decided in a tick in which none of the gates holds
\* for it any more, and it is still going home because an earlier tick of
\* the day set the latch
C28_Witness ==
  /\ last.kind = "decide"
  /\ last.who \in DOMAIN population
  /\ step_in_day >= 1
  /\ population[last.who].alive
  /\ population[last.who].going_home
  /\ ~GoingHomeAfterGates_unlatched(population[last.who], DaySteps - step_in_day)


\* C29: at every point of a day, for every creature: prey_kills_today is at
\* most eaten; a herbivore has no kills; and a carnivore has eaten equal to
\* prey_kills_today (it never consumes plant food), so a carnivore for which
\* the selection orders offspring has made a kill.
C29_KillsWithinEaten ==
  \A k \in DOMAIN population :
    LET c == population[k]
    IN /\ c.prey_kills_today >= 0
       /\ c.prey_kills_today <= c.eaten
       /\ c.species.diet = "herbivore" => c.prey_kills_today = 0
       /\ c.species.diet = "carnivore" =>
            /\ c.eaten = c.prey_kills_today
            /\ OffspringCount(c) > 0 => c.prey_kills_today >= 1

\* a living carnivore that has made its kill of the day has had its food
\* step with a food item within its bite radius, and the item is still there
C29_Witness ==
  /\ last.kind = "food"
  /\ last.who \in DOMAIN population
  /\ LET c == population[last.who]
     IN /\ c.alive
        /\ c.species.diet = "carnivore"
        /\ c.prey_kills_today = 1
        /\ c.eaten = 1
        /\ \E f \in DOMAIN food :
             Hypot100(food[f].x - c.x, food[f].y - c.y) <= bite_radius(c)


\* a call of step returns True in this step: the day boundary at the end of
\* a day, or the emergency reseed of an empty population
ReturnsTrue ==
  \/ (pc = <<"newday", 0>> /\ pc' = <<"decide", 1>>)
  \/ (pc = <<"decide", 1>> /\ population = <<>> /\ last'.kind = "reseed")

\* C30: every call of step that returns True has completed a day: the day
\* counter is one higher than before the call and the snapshot holds the
\* creatures of the day that just ended, so that day - 1, logged on every
\* True return, names every day once.
C30_TrueMeansDayCompleted ==
  [][ReturnsTrue =>
       /\ day' = day + 1
       /\ DOMAIN snapshot' = DOMAIN population
       /\ \A k \in DOMAIN population : snapshot'[k].id = population[k].id]_vars

====
